---- MODULE Spec2Model ----
(***************************************************************************)
(* Reconciliation and navigation model of mutagui.                         *)
(*                                                                         *)
(* Conventions.                                                            *)
(*   - Names that the code compares or sorts (spec names, session names,   *)
(*     file names, display names) are sequences of byte values, so that    *)
(*     format!("{}-push", name), strip_suffix and String::cmp are computed *)
(*     rather than assumed.                                                *)
(*   - Option<T> is a sequence of length at most one: None is << >>,       *)
(*     Some(x) is <<x>>.                                                   *)
(*   - Vec indices stored in the model (row indices, the cursor) are       *)
(*     0-based as in the code; TLA+ sequences are 1-based, so v.get(i) is  *)
(*     v[i + 1].                                                           *)
(***************************************************************************)
EXTENDS Integers, Sequences, FiniteSets, TLC

VARIABLES
    projects,           \* App.projects : Vec<Project>
    items,              \* the selection's flattened row list
    selected_index,     \* the selection's cursor
    status_message,     \* App.status_message : Option<StatusMessage>
    has_refresh_error,  \* App.has_refresh_error
    last_refresh,       \* App.last_refresh : Option<DateTime> (the time itself abstracted)
    op,                 \* history: the operation that produced this state
    snap_files,         \* history: project files the last successful refresh received
    snap_sessions,      \* history: session list the last successful refresh received
    new_paths,          \* history: paths the last successful refresh met for the first time
    fresh_projects,     \* history: what the last successful refresh would store without a previous generation
    toggled,            \* history: the index the last step toggled, with the row count and cursor before it
    sel,                \* SelectionManager of selection.rs, driven on its own
    sel_op,             \* history: the SelectionManager operation that produced this state
    sel_was,            \* history: the SelectionManager before that operation
    nav,                \* history: the current run of select_next calls
    rc_files,           \* reconciliation harness: input Vec<ProjectFile>
    rc_sessions,        \* reconciliation harness: input &[SyncSession]
    rc_projects,        \* reconciliation harness: output Vec<Project>
    rc_pc,              \* reconciliation harness: "off" | "input" | "done"
    sp,                 \* start_project: the lock file, the daemon's sessions and the last call
    dc,                 \* discovery harness: the file system, the glob results and the result
    bt,                 \* a project-level batch: its targets, position, issued commands, App.blocking_op
    auto,               \* auto-refresh: config.refresh and the seconds since last_refresh
    ky                  \* key handling: should_quit, the view fields, blocking_op, the last key and its result

vars == <<projects, items, selected_index, status_message, has_refresh_error,
          last_refresh, op, snap_files, snap_sessions, new_paths, fresh_projects, toggled,
          sel, sel_op, sel_was, nav,
          rc_files, rc_sessions, rc_projects, rc_pc,
          sp, bt, dc, auto, ky>>

appVars == <<projects, items, selected_index, status_message, has_refresh_error,
             last_refresh>>

histVars == <<op, snap_files, snap_sessions, new_paths, fresh_projects, toggled>>

selVars == <<sel, sel_op, sel_was, nav>>

rcVars == <<rc_files, rc_sessions, rc_projects, rc_pc>>

auxVars == <<sp, bt, dc, auto, ky>>

(***************************************************************************)
(* Bounds of the model.                                                    *)
(***************************************************************************)
\* longest session list the daemon returns to the application
MaxSessions == 2
\* most project files one discovery returns to the application
MaxProjects == 2
\* longest session list handed to the reconciliation harness
MaxRcSessions == 3
\* most spec names in the project file handed to the reconciliation harness
MaxRcKeys == 3
\* largest size of either list the SelectionManager is given
MaxSize == 3

\* search patterns of one discovery
MaxPatterns == 2

(***************************************************************************)
(* Generic helpers.                                                        *)
(***************************************************************************)
None == << >>

Some(x) == <<x>>

IsSome(o) == Len(o) > 0

Unwrap(o) == o[1]

SetMin(S) == CHOOSE x \in S : \A y \in S : x <= y

Range(s) == {s[i] : i \in 1..Len(s)}

\* all sequences over S of length at most n
SeqsUpTo(S, n) == UNION {[1..k -> S] : k \in 0..n}

\* sequences without repetition
IsInjective(s) == \A i, j \in 1..Len(s) : i # j => s[i] # s[j]

\* str::starts_with / str::ends_with / strip_prefix / strip_suffix on byte strings
starts_with(s, p) == Len(s) >= Len(p) /\ SubSeq(s, 1, Len(p)) = p

ends_with(s, p) == Len(s) >= Len(p) /\ SubSeq(s, Len(s) - Len(p) + 1, Len(s)) = p

strip_prefix(s, p) == IF starts_with(s, p) THEN Some(SubSeq(s, Len(p) + 1, Len(s))) ELSE None

strip_suffix(s, p) == IF ends_with(s, p) THEN Some(SubSeq(s, 1, Len(s) - Len(p))) ELSE None

\* String::cmp: bytewise lexicographic order, a proper prefix is smaller
StrLess(s, t) ==
    \E i \in 1..(Len(t)) :
        /\ i <= Len(s) + 1
        /\ \A j \in 1..(i - 1) : s[j] = t[j]
        /\ (i = Len(s) + 1 \/ s[i] < t[i])

SetMax(S) == CHOOSE x \in S : \A y \in S : y <= x

\* the first / the last element of seq whose index is in hits, as an Option
FirstAt(seq, hits) == IF hits = {} THEN None ELSE Some(seq[SetMin(hits)])

LastAt(seq, hits) == IF hits = {} THEN None ELSE Some(seq[SetMax(hits)])

\* iter().find(pred): the first element satisfying pred
Find(seq, pred(_)) == FirstAt(seq, {i \in 1..Len(seq) : pred(seq[i])})

\* the values of a sequence of key/value records
Values(kvs) == [i \in 1..Len(kvs) |-> kvs[i].v]

\* slice::sort_by(|a, b| a.k.cmp(&b.k)) over records carrying their sort key in
\* field k: a stable sort, computed as an insertion sort that places each
\* element after every element not greater than it.
RECURSIVE InsertByKey(_, _)
InsertByKey(sorted, x) ==
    IF sorted = << >> THEN <<x>>
    ELSE IF StrLess(x.k, Head(sorted).k)
         THEN <<x>> \o sorted
         ELSE <<Head(sorted)>> \o InsertByKey(Tail(sorted), x)

RECURSIVE SortByKey(_)
SortByKey(seq) ==
    IF seq = << >> THEN << >>
    ELSE InsertByKey(SortByKey(SubSeq(seq, 1, Len(seq) - 1)), seq[Len(seq)])

(***************************************************************************)
(* Byte strings used by the code and by the bounded inputs.                *)
(***************************************************************************)
\* "-push", the suffix of format!("{}-push", name)
PushSuffix == <<45, 112, 117, 115, 104>>

\* "mutagen"
StrMutagen == <<109, 117, 116, 97, 103, 101, 110>>

\* "mutagen-" and ".mutagen-"
StrMutagenDash == StrMutagen \o <<45>>

StrDotMutagenDash == <<46>> \o StrMutagenDash

\* ".yml"
StrYml == <<46, 121, 109, 108>>

\* the mode string the code tests for
OneWayReplica == "one-way-replica"

\* spec / session names "a", "b", "a-push", "b-push"
NameA == <<97>>

NameB == <<98>>

NameAPush == NameA \o PushSuffix

NameBPush == NameB \o PushSuffix

\* file names "mutagen.yml", "mutagen-dev.yml"
FileMutagenYml == StrMutagen \o StrYml

FileMutagenDevYml == StrMutagenDash \o <<100, 101, 118>> \o StrYml

(***************************************************************************)
(* project.rs: SyncSpec, ProjectFile, reconciliation.                      *)
(***************************************************************************)
\* SyncSpec::is_running
is_running(spec) == IsSome(spec.running_session)

\* SyncSpec::has_conflicts (through SyncSpec::conflicts)
has_conflicts(spec) ==
    IF IsSome(spec.running_session)
    THEN Len(Unwrap(spec.running_session).conflicts) # 0
    ELSE FALSE

\* extract_target_name(path)
extract_target_name(path) ==
    LET name == path.file_name
    IN  IF starts_with(name, StrMutagenDash) /\ ends_with(name, StrYml)
        THEN strip_suffix(Unwrap(strip_prefix(name, StrMutagenDash)), StrYml)
        ELSE IF starts_with(name, StrDotMutagenDash) /\ ends_with(name, StrYml)
        THEN strip_suffix(Unwrap(strip_prefix(name, StrDotMutagenDash)), StrYml)
        ELSE None

\* ProjectFile::display_name
display_name(file) ==
    IF IsSome(file.target_name)
    THEN StrMutagenDash \o Unwrap(file.target_name)
    ELSE LET stripped == strip_suffix(file.path.file_name, StrYml)
         IN  IF IsSome(stripped) THEN Unwrap(stripped) ELSE StrMutagen

\* classify with the push candidate examined first
classify_push_first(name, two_way_session, push_session) ==
    IF IsSome(push_session)
    THEN [name |-> name, state |-> "RunningPush", running_session |-> push_session]
    ELSE IF IsSome(two_way_session)
    THEN [name |-> name, state |-> "RunningTwoWay", running_session |-> two_way_session]
    ELSE [name |-> name, state |-> "NotRunning", running_session |-> None]

\* classify with the tags of the two running states exchanged
classify_swapped_tags(name, two_way_session, push_session) ==
    IF IsSome(two_way_session)
    THEN [name |-> name, state |-> "RunningPush", running_session |-> two_way_session]
    ELSE IF IsSome(push_session)
    THEN [name |-> name, state |-> "RunningTwoWay", running_session |-> push_session]
    ELSE [name |-> name, state |-> "NotRunning", running_session |-> None]

\* the state and attachment build_sync_specs decides for one spec name from
\* the results of its two searches
classify(name, two_way_session, push_session) ==
    IF IsSome(two_way_session)
    THEN [name |-> name, state |-> "RunningTwoWay", running_session |-> two_way_session]
    ELSE IF IsSome(push_session)
    THEN [name |-> name, state |-> "RunningPush", running_session |-> push_session]
    ELSE [name |-> name, state |-> "NotRunning", running_session |-> None]

\* build_one_spec whose push search forgets the mode test
build_one_spec_push_any_mode(name, sessions) ==
    LET is_two_way(s) == s.name = name /\ s.mode # Some(OneWayReplica)
        is_push(s) == s.name = name \o PushSuffix
    IN  classify(name, Find(sessions, is_two_way), Find(sessions, is_push))

\* build_one_spec whose two-way search forgets the mode test
build_one_spec_two_way_any_mode(name, sessions) ==
    LET is_two_way(s) == s.name = name
        is_push(s) == s.name = name \o PushSuffix /\ s.mode = Some(OneWayReplica)
    IN  classify(name, Find(sessions, is_two_way), Find(sessions, is_push))

\* build_one_spec whose searches return the last match instead of the first
build_one_spec_last_match(name, sessions) ==
    LET is_two_way(s) == s.name = name /\ s.mode # Some(OneWayReplica)
        is_push(s) == s.name = name \o PushSuffix /\ s.mode = Some(OneWayReplica)
        reversed == [i \in 1..Len(sessions) |-> sessions[Len(sessions) + 1 - i]]
    IN  classify(name, Find(reversed, is_two_way), Find(reversed, is_push))

\* the body of the loop of build_sync_specs for one spec name
build_one_spec(name, sessions) ==
    LET is_two_way(s) == s.name = name /\ s.mode # Some(OneWayReplica)
        is_push(s) == s.name = name \o PushSuffix /\ s.mode = Some(OneWayReplica)
    IN  classify(name, Find(sessions, is_two_way), Find(sessions, is_push))

\* the specs pushed by the loop, in the iteration order of the keys, each with
\* its sort key
pushed_specs(keys, sessions) ==
    [i \in 1..Len(keys) |-> [k |-> keys[i], v |-> build_one_spec(keys[i], sessions)]]

\* build_sync_specs without its final sort
build_sync_specs_unsorted(project_file, sessions) ==
    Values(pushed_specs(project_file.sessions, sessions))

\* build_sync_specs: project_file.sessions is the key sequence in the HashMap's
\* iteration order
build_sync_specs(project_file, sessions) ==
    Values(SortByKey(pushed_specs(project_file.sessions, sessions)))

\* unfold_decision with the upper comparison of the mixed test off by one
unfold_decision_mixed_le(any_conflict, running_count, total, two_way_count, push_count) ==
    IF any_conflict THEN TRUE
    ELSE IF running_count > 0 /\ running_count <= total THEN TRUE
    ELSE IF two_way_count > 0 /\ push_count > 0 THEN TRUE
    ELSE FALSE

\* unfold_decision without the conflict test
unfold_decision_no_conflict_test(any_conflict, running_count, total, two_way_count, push_count) ==
    IF running_count > 0 /\ running_count < total THEN TRUE
    ELSE IF two_way_count > 0 /\ push_count > 0 THEN TRUE
    ELSE FALSE

\* the decision of should_auto_unfold_specs from its counts
unfold_decision(any_conflict, running_count, total, two_way_count, push_count) ==
    IF any_conflict THEN TRUE
    ELSE IF running_count > 0 /\ running_count < total THEN TRUE
    ELSE IF two_way_count > 0 /\ push_count > 0 THEN TRUE
    ELSE FALSE

\* should_auto_unfold_specs
should_auto_unfold_specs(specs) ==
    unfold_decision(
        \E i \in 1..Len(specs) : has_conflicts(specs[i]),
        Cardinality({i \in 1..Len(specs) : is_running(specs[i])}),
        Len(specs),
        Cardinality({i \in 1..Len(specs) : specs[i].state = "RunningTwoWay"}),
        Cardinality({i \in 1..Len(specs) : specs[i].state = "RunningPush"}))

\* new_project without the negation of the recommendation
new_project_not_negated(file, specs) ==
    [file |-> file, specs |-> specs, folded |-> should_auto_unfold_specs(specs)]

\* the Project the closure of correlate_projects_with_sessions builds
new_project(file, specs) ==
    [file |-> file, specs |-> specs, folded |-> ~should_auto_unfold_specs(specs)]

\* correlate_projects_with_sessions
correlate_projects_with_sessions(project_files, sessions) ==
    [i \in 1..Len(project_files) |->
        new_project(project_files[i], build_sync_specs(project_files[i], sessions))]

(***************************************************************************)
(* Selection: the flattened row list and the cursor.                       *)
(***************************************************************************)
ProjectHeader(p) == [kind |-> "Project", index |-> p]

SpecRow(p, s) == [kind |-> "Spec", project_index |-> p, spec_index |-> s]

\* rows of one project (0-based project index p)
project_rows(project, p) ==
    <<ProjectHeader(p)>> \o
    (IF project.folded THEN << >>
     ELSE [s \in 1..Len(project.specs) |-> SpecRow(p, s - 1)])

\* flattening: for each project in order its header, then, if not folded, one
\* row per spec in order
RECURSIVE flatten_projects(_, _)
flatten_projects(projs, n) ==
    IF n = 0 THEN << >>
    ELSE flatten_projects(projs, n - 1) \o project_rows(projs[n], n - 1)

\* clamp_cursor that keeps the index whatever the length
clamp_cursor_never(total, idx) == idx

\* clamp_cursor that clamps to the length instead of the last index
clamp_cursor_to_len(total, idx) ==
    IF total > 0 /\ idx >= total THEN total ELSE idx

\* clamp_cursor that lets an index equal to the length pass
clamp_cursor_gt(total, idx) ==
    IF total > 0 /\ idx > total THEN total - 1 ELSE idx

\* SelectionManager::update_sizes, "Clamp selection to valid range": the
\* selected index once the list has total items
clamp_cursor(total, idx) ==
    IF total > 0 /\ idx >= total THEN total - 1 ELSE idx

\* the selection after its rows are replaced by new_items
replace_items(new_items, idx) ==
    [items |-> new_items,
     selected_index |-> clamp_cursor(Len(new_items), idx)]

\* SelectionManager::rebuild_from_projects: the new rows and the new cursor
rebuild_from_projects(projs, idx) ==
    replace_items(flatten_projects(projs, Len(projs)), idx)

(***************************************************************************)
(* app.rs: App::refresh_sessions and the navigation operations.            *)
(***************************************************************************)
SessionsRefreshed == [level |-> "Info", text |-> "Sessions refreshed"]

RefreshErrorMessage == [level |-> "Error", text |-> "Error: list failed (press 'r' to retry)"]

\* the sessions attached to the specs of one project, in spec order
attached_of(specs) ==
    [s \in 1..Len(specs) |-> specs[s].running_session]

UnwrapAll(opts) == [i \in 1..Len(opts) |-> Unwrap(opts[i])]

\* the sessions attached in a generation, in the order the loop visits them
RECURSIVE attached_sessions(_, _)
attached_sessions(projs, n) ==
    IF n = 0 THEN << >>
    ELSE attached_sessions(projs, n - 1)
             \o UnwrapAll(SelectSeq(attached_of(projs[n].specs), IsSome))

\* HashMap::get after the inserts in order: insert overwrites, so the last
\* entry with that identifier
last_with_id(all, id) == LastAt(all, {i \in 1..Len(all) : all[i].identifier = id})

\* old_sessions_by_id.get(id)
old_session_by_id(projs, id) == last_with_id(attached_sessions(projs, Len(projs)), id)

\* Option<u64>::unwrap_or(0)
unwrap_or_0(o) == IF IsSome(o) THEN Unwrap(o) ELSE 0

\* set_sync_time that answers the previous version of a session it has seen
set_sync_time_keep_old(new_session, old, is_first_refresh) ==
    IF IsSome(old)
    THEN Unwrap(old)
    ELSE IF is_first_refresh
         THEN [new_session EXCEPT !.sync_time = "Unknown"]
         ELSE [new_session EXCEPT !.sync_time = "Never"]

\* set_sync_time that takes a counter that did not decrease for a sync
set_sync_time_not_less(new_session, old, is_first_refresh) ==
    IF IsSome(old)
    THEN IF unwrap_or_0(new_session.successful_cycles)
              >= unwrap_or_0(Unwrap(old).successful_cycles)
         THEN [new_session EXCEPT !.sync_time = "At"]
         ELSE [new_session EXCEPT !.sync_time = Unwrap(old).sync_time]
    ELSE IF is_first_refresh
         THEN [new_session EXCEPT !.sync_time = "Unknown"]
         ELSE IF unwrap_or_0(new_session.successful_cycles) > 0
              THEN [new_session EXCEPT !.sync_time = "At"]
              ELSE [new_session EXCEPT !.sync_time = "Never"]

\* the closure mapped over the new session list, given the lookup result
set_sync_time(new_session, old, is_first_refresh) ==
    IF IsSome(old)
    THEN IF unwrap_or_0(new_session.successful_cycles)
              > unwrap_or_0(Unwrap(old).successful_cycles)
         THEN [new_session EXCEPT !.sync_time = "At"]
         ELSE [new_session EXCEPT !.sync_time = Unwrap(old).sync_time]
    ELSE IF is_first_refresh
         THEN [new_session EXCEPT !.sync_time = "Unknown"]
         ELSE IF unwrap_or_0(new_session.successful_cycles) > 0
              THEN [new_session EXCEPT !.sync_time = "At"]
              ELSE [new_session EXCEPT !.sync_time = "Never"]

\* new_sessions: every session of the list with its sync_time tracked
track_sync_time(projs, sessions) ==
    [i \in 1..Len(sessions) |->
        set_sync_time(sessions[i], old_session_by_id(projs, sessions[i].identifier),
                      projs = << >>)]

\* fold_state.get(path): collect() into a HashMap keeps the last entry of a key
fold_state(projs, path) ==
    LastAt([i \in 1..Len(projs) |-> projs[i].folded],
           {i \in 1..Len(projs) : projs[i].file.path = path})

\* restore_fold that never restores
restore_fold_never(project, saved) == project

\* restore_fold that restores the negated flag
restore_fold_negated(project, saved) ==
    IF IsSome(saved) THEN [project EXCEPT !.folded = ~Unwrap(saved)] ELSE project

\* the body of the restore loop for one project
restore_fold(project, saved) ==
    IF IsSome(saved) THEN [project EXCEPT !.folded = Unwrap(saved)] ELSE project

\* the restore loop
restore_fold_state(projs, correlated) ==
    [i \in 1..Len(correlated) |->
        restore_fold(correlated[i], fold_state(projs, correlated[i].file.path))]

\* self.projects.sort_by(display_name)
sort_by_display_name(projs) ==
    Values(SortByKey([i \in 1..Len(projs) |->
                         [k |-> display_name(projs[i].file), v |-> projs[i]]]))

\* the Project list a successful refresh stores
refreshed_projects(projs, project_files, sessions) ==
    sort_by_display_name(
        restore_fold_state(projs,
            correlate_projects_with_sessions(project_files,
                track_sync_time(projs, sessions))))

\* should_show_refreshed that treats every message as temporary
should_show_refreshed_always(msg) == TRUE

\* should_show_refreshed
should_show_refreshed(msg) ==
    \/ msg = None
    \/ /\ IsSome(msg)
       /\ Unwrap(msg).text \in {"Creating push session...", "Starting sync spec..."}

\* the selection's fields take the values of s
set_selection(s) ==
    /\ items' = s.items
    /\ selected_index' = s.selected_index

\* store_projects that rebuilds the selection from the list it replaces
store_projects_rebuild_from_old(new_projects) ==
    /\ projects' = new_projects
    /\ set_selection(rebuild_from_projects(projects, selected_index))

\* store_projects that leaves the selection as it was
store_projects_no_rebuild(new_projects) ==
    /\ projects' = new_projects
    /\ UNCHANGED <<items, selected_index>>

\* self.projects is replaced and the selection rebuilt from it
store_projects(new_projects) ==
    /\ projects' = new_projects
    /\ set_selection(rebuild_from_projects(new_projects, selected_index))

\* App::refresh_sessions, list_sessions() = Ok(sessions) and discovery = Ok(project_files)
\* (discover_project_files has no path that returns Err)
refresh_sessions_ok(project_files, sessions) ==
    /\ store_projects(refreshed_projects(projects, project_files, sessions))
    /\ last_refresh' = Some("now")
    /\ status_message' = IF should_show_refreshed(status_message)
                         THEN Some(SessionsRefreshed)
                         ELSE status_message
    /\ has_refresh_error' = FALSE

\* refresh_sessions that drops the projects when the session query fails
refresh_sessions_err_drops_projects ==
    /\ store_projects(<< >>)
    /\ status_message' = Some(RefreshErrorMessage)
    /\ has_refresh_error' = TRUE
    /\ UNCHANGED last_refresh

\* App::refresh_sessions, list_sessions() = Err(e)
refresh_sessions_err ==
    /\ status_message' = Some(RefreshErrorMessage)
    /\ has_refresh_error' = TRUE
    /\ UNCHANGED <<projects, items, selected_index, last_refresh>>

\* should_auto_refresh that retries after a failed refresh
should_auto_refresh_after_error(enabled, interval_secs, error, last, elapsed) ==
    IF ~enabled THEN FALSE
    ELSE IF IsSome(last) THEN elapsed >= interval_secs ELSE TRUE

\* App::should_auto_refresh; elapsed is Local::now().signed_duration_since(last)
\* in whole seconds
should_auto_refresh(enabled, interval_secs, error, last, elapsed) ==
    IF ~enabled THEN FALSE
    ELSE IF error THEN FALSE
    ELSE IF IsSome(last) THEN elapsed >= interval_secs ELSE TRUE

\* next_index that stops at the last item
next_index_no_wrap(total, idx) ==
    IF total > 0 THEN (IF idx + 1 < total THEN idx + 1 ELSE idx) ELSE idx

\* SelectionManager::select_next: the selected index it leaves
next_index(total, idx) ==
    IF total > 0 THEN (idx + 1) % total ELSE idx

\* previous_index that stops at the first item
previous_index_no_wrap(total, idx) ==
    IF total > 0 THEN (IF idx = 0 THEN 0 ELSE idx - 1) ELSE idx

\* SelectionManager::select_previous: the selected index it leaves
previous_index(total, idx) ==
    IF total > 0 THEN (IF idx = 0 THEN total - 1 ELSE idx - 1) ELSE idx

\* App::select_next / SelectionManager::select_next
select_next ==
    /\ selected_index' = next_index(Len(items), selected_index)
    /\ UNCHANGED <<projects, items, status_message, has_refresh_error, last_refresh>>

\* App::select_previous / SelectionManager::select_previous
select_previous ==
    /\ selected_index' = previous_index(Len(items), selected_index)
    /\ UNCHANGED <<projects, items, status_message, has_refresh_error, last_refresh>>

\* toggle_project_fold that flips the flag and forgets the rebuild
toggle_project_fold_no_rebuild(project_idx) ==
    /\ IF project_idx < Len(projects)
       THEN /\ projects' = [projects EXCEPT ![project_idx + 1].folded = ~@]
            /\ UNCHANGED <<items, selected_index>>
       ELSE UNCHANGED <<projects, items, selected_index>>
    /\ UNCHANGED <<status_message, has_refresh_error, last_refresh>>

\* toggle_project_fold that folds the project instead of flipping its flag
toggle_project_fold_set(project_idx) ==
    /\ IF project_idx < Len(projects)
       THEN store_projects([projects EXCEPT ![project_idx + 1].folded = TRUE])
       ELSE UNCHANGED <<projects, items, selected_index>>
    /\ UNCHANGED <<status_message, has_refresh_error, last_refresh>>

\* App::toggle_project_fold
toggle_project_fold(project_idx) ==
    /\ IF project_idx < Len(projects)
       THEN store_projects([projects EXCEPT ![project_idx + 1].folded = ~@])
       ELSE UNCHANGED <<projects, items, selected_index>>
    /\ UNCHANGED <<status_message, has_refresh_error, last_refresh>>

\* the row the cursor addresses, if any
selected_item(rows, idx) ==
    IF idx < Len(rows) THEN Some(rows[idx + 1]) ELSE None

\* SelectionManager::is_project_selected
is_project_selected(rows, idx) ==
    IsSome(selected_item(rows, idx)) /\ Unwrap(selected_item(rows, idx)).kind = "Project"

\* SelectionManager::is_spec_selected
is_spec_selected(rows, idx) ==
    IsSome(selected_item(rows, idx)) /\ Unwrap(selected_item(rows, idx)).kind = "Spec"

\* SelectionManager::selected_project_index: the project of the addressed
\* row, the parent project for a spec row
selected_project_index(rows, idx) ==
    IF is_project_selected(rows, idx) THEN Some(rows[idx + 1].index)
    ELSE IF is_spec_selected(rows, idx) THEN Some(rows[idx + 1].project_index)
    ELSE None

\* SelectionManager::selected_spec: (project_index, spec_index) of an
\* addressed spec row
selected_spec(rows, idx) ==
    IF is_spec_selected(rows, idx)
    THEN Some(<<rows[idx + 1].project_index, rows[idx + 1].spec_index>>)
    ELSE None

\* App::get_selected_project_index
get_selected_project_index == selected_project_index(items, selected_index)

\* App::get_selected_spec
get_selected_spec == selected_spec(items, selected_index)

(***************************************************************************)
(* keys.rs: handle_key_event and its handlers.                             *)
(***************************************************************************)
\* how the command behind a key ends: the daemon did it, the daemon failed,
\* or the command found nothing to do
CommandOutcomes == {"succeeded", "failed", "nothing"}

\* the status message a command leaves (the texts abstracted to the outcome)
command_status(outcome) ==
    IF outcome = "succeeded" THEN Some([level |-> "Info", text |-> "command succeeded"])
    ELSE IF outcome = "failed" THEN Some([level |-> "Error", text |-> "command failed"])
    ELSE status_message

\* a handler returned Ok(()): the status message and blocking_op it leaves
HandlerOk(status, blocking_op) ==
    [ok |-> TRUE, status_message |-> status, blocking_op |-> blocking_op]

\* a handler returned Err through `?` after it set blocking_op
HandlerErr(blocking_op) ==
    [ok |-> FALSE, status_message |-> status_message, blocking_op |-> blocking_op]

\* the blocking modal of a project-level command: blocking_op is set, the
\* frame drawn (terminal.draw(...)?), the command run, blocking_op cleared
modal_command(message, io_ok, outcome) ==
    IF io_ok THEN HandlerOk(command_status(outcome), None)
    ELSE HandlerErr(Some(message))

\* handle_start
handle_start(io_ok, outcome) ==
    IF is_spec_selected(items, selected_index)
    THEN HandlerOk(command_status(outcome), ky.blocking_op)
    ELSE modal_command("Starting project...", io_ok, outcome)

\* handle_terminate
handle_terminate(io_ok, outcome) ==
    IF is_spec_selected(items, selected_index)
    THEN HandlerOk(command_status(outcome), ky.blocking_op)
    ELSE modal_command("Terminating project...", io_ok, outcome)

\* handle_flush
handle_flush(io_ok, outcome) ==
    IF is_spec_selected(items, selected_index)
    THEN HandlerOk(command_status(outcome), ky.blocking_op)
    ELSE modal_command("Flushing project...", io_ok, outcome)

\* handle_resume
handle_resume(io_ok, outcome) ==
    IF is_spec_selected(items, selected_index)
    THEN HandlerOk(command_status(outcome), ky.blocking_op)
    ELSE modal_command("Resuming project...", io_ok, outcome)

\* handle_pause_or_push: session_count of the selected project
push_session_count ==
    IF IsSome(get_selected_project_index) /\ Unwrap(get_selected_project_index) < Len(projects)
    THEN Len(projects[Unwrap(get_selected_project_index) + 1].file.sessions)
    ELSE 0

\* handle_pause_or_push
handle_pause_or_push(io_ok, outcome) ==
    IF is_spec_selected(items, selected_index)
    THEN modal_command("Creating push session...", io_ok, outcome)
    ELSE IF is_project_selected(items, selected_index)
    THEN modal_command(IF push_session_count = 1 THEN "Creating push session..."
                       ELSE "Creating n push sessions...", io_ok, outcome)
    ELSE HandlerOk(status_message, ky.blocking_op)

\* handle_toggle_pause: has_running of the selected project
has_running ==
    /\ IsSome(get_selected_project_index)
    /\ Unwrap(get_selected_project_index) < Len(projects)
    /\ \E i \in 1..Len(projects[Unwrap(get_selected_project_index) + 1].specs) :
          LET spec == projects[Unwrap(get_selected_project_index) + 1].specs[i]
          IN  IsSome(spec.running_session) /\ ~Unwrap(spec.running_session).paused

\* handle_toggle_pause
handle_toggle_pause(io_ok, outcome) ==
    IF is_project_selected(items, selected_index)
    THEN modal_command(IF has_running THEN "Pausing all specs..." ELSE "Resuming all specs...",
                       io_ok, outcome)
    ELSE HandlerOk(command_status(outcome), ky.blocking_op)

\* handle_enter_key: the editor is a GUI editor that is spawned, or a terminal
\* editor for which the TUI is suspended and restored (each step with `?`)
handle_enter_key(is_gui, io_ok, outcome) ==
    IF IsSome(get_selected_project_index)
    THEN IF Unwrap(get_selected_project_index) < Len(projects)
         THEN IF is_gui
              THEN HandlerOk(IF outcome = "failed"
                             THEN Some([level |-> "Error", text |-> "Failed to launch editor"])
                             ELSE Some([level |-> "Info", text |-> "Opened in editor"]),
                             ky.blocking_op)
              ELSE IF ~io_ok THEN HandlerErr(ky.blocking_op)
              ELSE HandlerOk(IF outcome = "succeeded"
                             THEN Some([level |-> "Info", text |-> "Edited"])
                             ELSE IF outcome = "nothing"
                             THEN Some([level |-> "Warning", text |-> "Editor exited with code"])
                             ELSE Some([level |-> "Error", text |-> "Failed to launch editor"]),
                             ky.blocking_op)
         ELSE HandlerOk(status_message, ky.blocking_op)
    ELSE HandlerOk(Some([level |-> "Info",
                         text |-> "Select a project to edit its configuration file"]),
                   ky.blocking_op)

\* App::toggle_session_display: the mode it leaves
toggle_session_display(mode) ==
    IF mode = "ShowPaths" THEN "ShowLastRefresh" ELSE "ShowPaths"

\* App::toggle_conflict_view: the selected spec, if it is there
conflict_view_spec ==
    IF /\ IsSome(get_selected_spec)
       /\ Unwrap(get_selected_spec)[1] < Len(projects)
       /\ Unwrap(get_selected_spec)[2] < Len(projects[Unwrap(get_selected_spec)[1] + 1].specs)
    THEN Some(projects[Unwrap(get_selected_spec)[1] + 1].specs[Unwrap(get_selected_spec)[2] + 1])
    ELSE None

\* App::toggle_conflict_view: viewing_conflicts as it leaves it
toggle_conflict_view_flag ==
    IF IsSome(conflict_view_spec) /\ has_conflicts(Unwrap(conflict_view_spec))
    THEN ~ky.viewing_conflicts
    ELSE ky.viewing_conflicts

\* App::toggle_conflict_view: the status message it leaves
toggle_conflict_view_status ==
    IF IsSome(get_selected_spec)
    THEN IF IsSome(conflict_view_spec)
         THEN IF has_conflicts(Unwrap(conflict_view_spec))
              THEN IF ~ky.viewing_conflicts
                   THEN Some([level |-> "Info", text |-> "Viewing conflicts for: spec"])
                   ELSE Some([level |-> "Info", text |-> "Closed conflict view"])
              ELSE Some([level |-> "Error", text |-> "No conflicts in selected spec"])
         ELSE status_message
    ELSE Some([level |-> "Error", text |-> "Select a spec to view conflicts"])

\* the key codes: one per arm of the match, "x" for any other key
KeyCodes ==
    {"q", "r", "m", "h", "Left", "l", "Right", "Enter", "e", "s", "t", "f", "u", "p",
     " ", "Up", "k", "Down", "j", "c", "x"}

\* the keys that run a command of the daemon
MutatingKeys == {"s", "t", "f", "u", "p", " "}

\* the handler of a mutating key
key_handler(code, io_ok, outcome) ==
    IF code = "s" THEN handle_start(io_ok, outcome)
    ELSE IF code = "t" THEN handle_terminate(io_ok, outcome)
    ELSE IF code = "f" THEN handle_flush(io_ok, outcome)
    ELSE IF code = "u" THEN handle_resume(io_ok, outcome)
    ELSE IF code = "p" THEN handle_pause_or_push(io_ok, outcome)
    ELSE handle_toggle_pause(io_ok, outcome)

\* the Ctrl-C test that never matches
is_ctrl_c_never(code, ctrl) == FALSE

\* key.code == KeyCode::Char('c') && key.modifiers.contains(KeyModifiers::CONTROL)
is_ctrl_c(code, ctrl) == code = "c" /\ ctrl

\* handle_key_event: `handler.await?; Ok(KeyAction::Refresh)`
handler_arm(k, h) ==
    /\ status_message' = h.status_message
    /\ ky' = [k EXCEPT !.blocking_op = h.blocking_op,
                       !.result = Some(IF h.ok THEN "Refresh" ELSE "Err")]
    /\ UNCHANGED <<projects, items, selected_index, has_refresh_error, last_refresh>>

\* handle_key_event; k is ky with the key noted
handle_key(k, code, ctrl, is_gui, io_ok, outcome) ==
    IF is_ctrl_c(code, ctrl) \/ code = "q"
    THEN /\ ky' = [k EXCEPT !.should_quit = TRUE, !.result = Some("Quit")]
         /\ UNCHANGED appVars
    ELSE IF code = "r"
    THEN /\ ky' = [k EXCEPT !.result = Some("Refresh")]
         /\ UNCHANGED appVars
    ELSE IF code = "m"
    THEN /\ ky' = [k EXCEPT !.session_display_mode = toggle_session_display(@),
                            !.result = Some("Continue")]
         /\ status_message' = Some([level |-> "Info", text |-> "Display mode"])
         /\ UNCHANGED <<projects, items, selected_index, has_refresh_error, last_refresh>>
    ELSE IF code \in {"h", "Left", "l", "Right", "Enter"}
    THEN /\ IF IsSome(get_selected_project_index)
            THEN toggle_project_fold(Unwrap(get_selected_project_index))
            ELSE UNCHANGED appVars
         /\ ky' = [k EXCEPT !.result = Some("Continue")]
    ELSE IF code = "e"
    THEN handler_arm(k, handle_enter_key(is_gui, io_ok, outcome))
    ELSE IF code \in MutatingKeys
    THEN handler_arm(k, key_handler(code, io_ok, outcome))
    ELSE IF code \in {"Up", "k"}
    THEN select_previous /\ ky' = [k EXCEPT !.result = Some("Continue")]
    ELSE IF code \in {"Down", "j"}
    THEN select_next /\ ky' = [k EXCEPT !.result = Some("Continue")]
    ELSE IF code = "c"
    THEN /\ ky' = [k EXCEPT !.viewing_conflicts = toggle_conflict_view_flag,
                            !.result = Some("Continue")]
         /\ status_message' = toggle_conflict_view_status
         /\ UNCHANGED <<projects, items, selected_index, has_refresh_error, last_refresh>>
    ELSE /\ ky' = [k EXCEPT !.result = Some("Continue")]
         /\ UNCHANGED appVars

\* handle_key_event, called by the event loop for a key: the loop has not
\* ended (no quit, no error returned)
handle_key_event(code, ctrl, is_gui, io_ok, outcome) ==
    /\ ~ky.should_quit
    /\ ky.result # Some("Err")
    /\ handle_key([ky EXCEPT !.key = Some([code |-> code, ctrl |-> ctrl]),
                             !.io_ok = io_ok, !.outcome = outcome],
                  code, ctrl, is_gui, io_ok, outcome)

(***************************************************************************)
(* selection.rs: SelectionManager, driven on its own.                      *)
(***************************************************************************)
\* SelectionManager::new
SelectionManager_new ==
    [projects_len |-> 0, sessions_len |-> 0, selected_index |-> 0,
     last_project_index |-> None, last_session_index |-> None,
     focus_area |-> "Projects"]

\* SelectionManager::total_items
total_items(s) == s.projects_len + s.sessions_len

\* SelectionManager::selected_project
selected_project(s) ==
    IF s.selected_index < s.projects_len THEN Some(s.selected_index) ELSE None

\* SelectionManager::selected_session
selected_session(s) ==
    IF s.selected_index >= s.projects_len /\ s.sessions_len > 0
    THEN Some(s.selected_index - s.projects_len)
    ELSE None

\* update_focus_from_selection that leaves the focus area as it was
update_focus_from_selection_kept(s) == s

\* SelectionManager::update_focus_from_selection
update_focus_from_selection(s) ==
    IF s.selected_index < s.projects_len
    THEN [s EXCEPT !.focus_area = "Projects"]
    ELSE [s EXCEPT !.focus_area = "Sessions"]

\* SelectionManager::update_sizes, "Update focus area based on current selection"
update_sizes_focus(s) ==
    IF s.selected_index < s.projects_len THEN [s EXCEPT !.focus_area = "Projects"]
    ELSE IF s.sessions_len > 0 THEN [s EXCEPT !.focus_area = "Sessions"]
    ELSE s

\* update_sizes that clamps against the sizes it is about to replace
update_sizes_stale_total(s, projects_len, sessions_len) ==
    update_sizes_focus(
        [s EXCEPT !.projects_len = projects_len,
                  !.sessions_len = sessions_len,
                  !.selected_index = clamp_cursor(s.projects_len + s.sessions_len, @)])

\* SelectionManager::update_sizes
update_sizes(s, projects_len, sessions_len) ==
    update_sizes_focus(
        [s EXCEPT !.projects_len = projects_len,
                  !.sessions_len = sessions_len,
                  !.selected_index = clamp_cursor(projects_len + sessions_len, @)])

\* SelectionManager::select_next
SelectionManager_select_next(s) ==
    IF total_items(s) > 0
    THEN update_focus_from_selection(
             [s EXCEPT !.selected_index = next_index(total_items(s), @)])
    ELSE s

\* SelectionManager::select_previous
SelectionManager_select_previous(s) ==
    IF total_items(s) > 0
    THEN update_focus_from_selection(
             [s EXCEPT !.selected_index = previous_index(total_items(s), @)])
    ELSE s

\* save_current_position that saves nothing
save_current_position_never(s) == s

\* SelectionManager::save_current_position
save_current_position(s) ==
    IF IsSome(selected_project(s))
    THEN [s EXCEPT !.last_project_index = selected_project(s)]
    ELSE IF IsSome(selected_session(s))
    THEN [s EXCEPT !.last_session_index = selected_session(s)]
    ELSE s

\* SelectionManager::toggle_focus, the arm that enters the Projects area
focus_projects(s) ==
    IF s.projects_len = 0 THEN [s EXCEPT !.focus_area = "Sessions"]
    ELSE IF IsSome(s.last_project_index) /\ Unwrap(s.last_project_index) < s.projects_len
    THEN [s EXCEPT !.focus_area = "Projects",
                   !.selected_index = Unwrap(s.last_project_index)]
    ELSE [s EXCEPT !.focus_area = "Projects", !.selected_index = 0]

\* SelectionManager::toggle_focus, the arm that enters the Sessions area
focus_sessions(s) ==
    IF s.sessions_len = 0 THEN [s EXCEPT !.focus_area = "Projects"]
    ELSE IF IsSome(s.last_session_index) /\ Unwrap(s.last_session_index) < s.sessions_len
    THEN [s EXCEPT !.focus_area = "Sessions",
                   !.selected_index = s.projects_len + Unwrap(s.last_session_index)]
    ELSE [s EXCEPT !.focus_area = "Sessions", !.selected_index = s.projects_len]

\* the toggle of the focus area after the position is saved
toggle_saved(s) ==
    IF s.focus_area = "Projects" THEN focus_sessions(s) ELSE focus_projects(s)

\* SelectionManager::toggle_focus
toggle_focus(s) == toggle_saved(save_current_position(s))

\* SelectionManager::select_project
select_project(s, project_idx) ==
    IF project_idx < s.projects_len
    THEN [s EXCEPT !.selected_index = project_idx, !.focus_area = "Projects"]
    ELSE s

\* SelectionManager::select_session
select_session(s, session_idx) ==
    IF session_idx < s.sessions_len
    THEN [s EXCEPT !.selected_index = s.projects_len + session_idx,
                   !.focus_area = "Sessions"]
    ELSE s

\* ProjectFile::from_path for a file at path whose sync section has the keys
\* given (in the HashMap's iteration order)
from_path(path, keys) ==
    [path |-> path, target_name |-> extract_target_name(path), sessions |-> keys]

(***************************************************************************)
(* project.rs: discover_project_files.                                     *)
(*                                                                         *)
(* The file system gives every directory entry the file it resolves to     *)
(* (file), whether canonicalize succeeds on it (canon_ok) and whether      *)
(* should_exclude holds of it (excluded), and every file what is_file      *)
(* says of it and what ProjectFile::from_path makes of it (parsed: the     *)
(* keys of its sync section, or none when it cannot be read or parsed).    *)
(* The glob results are, for each search pattern in order, whether the     *)
(* glob succeeded (ok) and the entries matched, in the order glob yields   *)
(* them (paths).                                                           *)
(***************************************************************************)
\* entry.canonicalize().unwrap_or_else(|_| entry.clone())
canonical_path(fs, e) ==
    IF fs.entries[e].canon_ok THEN fs.files[fs.entries[e].file].path
    ELSE fs.entries[e].path

\* ProjectFile::from_path(entry.clone()) against the file the entry resolves to
from_path_of(fs, e) ==
    LET parsed == fs.files[fs.entries[e].file].parsed
    IN  IF IsSome(parsed) THEN Some(from_path(fs.entries[e].path, Unwrap(parsed)))
        ELSE None

\* the entries of all patterns in order: for pattern in search_paths
\* { match glob(&pattern) { Ok(paths) => for entry in paths.flatten() .. } }
RECURSIVE glob_entries(_, _)
glob_entries(globs, n) ==
    IF n = 0 THEN << >>
    ELSE glob_entries(globs, n - 1) \o (IF globs[n].ok THEN globs[n].paths ELSE << >>)

\* the body of the inner loop for one entry: acc holds files and seen_paths
\* discover_entry without the seen_paths test
discover_entry_no_dedup(fs, acc, e) ==
    IF ~fs.files[fs.entries[e].file].is_file THEN acc
    ELSE IF fs.entries[e].excluded THEN acc
    ELSE [seen_paths |-> acc.seen_paths \cup {canonical_path(fs, e)},
          files |-> acc.files \o (IF IsSome(from_path_of(fs, e))
                                   THEN <<Unwrap(from_path_of(fs, e))>>
                                   ELSE << >>)]

discover_entry(fs, acc, e) ==
    IF ~fs.files[fs.entries[e].file].is_file THEN acc
    ELSE IF fs.entries[e].excluded THEN acc
    ELSE IF canonical_path(fs, e) \in acc.seen_paths THEN acc
    ELSE [seen_paths |-> acc.seen_paths \cup {canonical_path(fs, e)},
          files |-> acc.files \o (IF IsSome(from_path_of(fs, e))
                                   THEN <<Unwrap(from_path_of(fs, e))>>
                                   ELSE << >>)]

\* the loops over the first n entries
RECURSIVE discover_entries(_, _, _)
discover_entries(fs, entries, n) ==
    IF n = 0 THEN [seen_paths |-> {}, files |-> << >>]
    ELSE discover_entry(fs, discover_entries(fs, entries, n - 1), entries[n])

\* discover_project_files: Ok(files)
discover_project_files(fs, globs) ==
    LET entries == glob_entries(globs, Len(globs))
    IN  [kind |-> "Ok", files |-> discover_entries(fs, entries, Len(entries)).files]

(***************************************************************************)
(* mutagen.rs: MutagenClient::start_project.                               *)
(*                                                                         *)
(* An outcome of runner.run("mutagen project start -f ..") is "RunErr"     *)
(* (the runner itself fails: the `?`), "Success", "AlreadyRunning" (exit   *)
(* status not success, stderr contains "project already running") or       *)
(* "Failed" (exit status not success, any other stderr).  listed is the    *)
(* result of list_sessions(): None for Err, Some(n) for Ok of n sessions.  *)
(***************************************************************************)
RunOutcomes == {"RunErr", "Success", "AlreadyRunning", "Failed"}

\* list_sessions().await.unwrap_or_default(): the number of sessions seen
unwrap_or_default(listed) == IF IsSome(listed) THEN Unwrap(listed) ELSE 0

\* the result of a start attempt that is not followed by another
start_result(outcome, kind) ==
    IF outcome = "RunErr" THEN [kind |-> "RunErr", stderr |-> outcome]
    ELSE IF outcome = "Success" THEN [kind |-> "Ok", stderr |-> outcome]
    ELSE [kind |-> kind, stderr |-> outcome]

\* MutagenClient::start_project: the result, the commands issued in order and
\* whether the lock file exists afterwards
start_project(first, listed, lock_exists, remove_ok, retry) ==
    IF first # "AlreadyRunning"
    THEN [result |-> start_result(first, "StartFailed"),
          log |-> <<"start">>, lock |-> lock_exists]
    ELSE IF unwrap_or_default(listed) = 0 /\ lock_exists
    THEN IF ~remove_ok
         THEN [result |-> [kind |-> "RemoveFailed", stderr |-> first],
               log |-> <<"start", "list", "remove_lock">>, lock |-> lock_exists]
         ELSE [result |-> start_result(retry, "RetryFailed"),
               log |-> <<"start", "list", "remove_lock", "start">>, lock |-> FALSE]
    ELSE [result |-> start_result(first, "StartFailed"),
          log |-> <<"start", "list">>, lock |-> lock_exists]

(***************************************************************************)
(* app.rs: the project-level batches terminate_selected_project,           *)
(* flush_selected_project, resume_selected_project, pause_selected_project *)
(* and push_selected_project.  A batch kind is "terminate", "flush",       *)
(* "resume", "pause" or "push"; a target is the name of a spec with the    *)
(* identifier of its session (none for a push, which creates one).         *)
(***************************************************************************)
BatchKinds == {"terminate", "flush", "resume", "pause", "push"}

\* no batch started, App.blocking_op = None
NoBatch ==
    [pc |-> "idle", kind |-> "none", targets |-> << >>, pos |-> 0, log |-> << >>,
     ok_count |-> 0, errors |-> << >>, blocking_op |-> None]

\* the filter of a batch over the specs of the project
is_batch_target(kind, spec) ==
    IF kind = "resume"
    THEN IsSome(spec.running_session) /\ Unwrap(spec.running_session).paused
    ELSE is_running(spec)

\* running_specs / paused_specs, or project.file.sessions for a push, in order
batch_targets(kind, project) ==
    IF kind = "push"
    THEN [i \in 1..Len(project.file.sessions) |->
             [name |-> project.file.sessions[i], id |-> None]]
    ELSE LET hits == SelectSeq(project.specs, LAMBDA s : is_batch_target(kind, s))
         IN  [i \in 1..Len(hits) |->
                 [name |-> hits[i].name,
                  id |-> Some(Unwrap(hits[i].running_session).identifier)]]

\* push_selected_project: every running session of the project is terminated
\* first, the results (term_ok, one per session) ignored
push_terminations(project, term_ok) ==
    LET hits == SelectSeq(project.specs, LAMBDA s : is_running(s))
    IN  [i \in 1..Len(hits) |->
            [cmd |-> "terminate", name |-> hits[i].name,
             id |-> Some(Unwrap(hits[i].running_session).identifier),
             ok |-> term_ok[i]]]

\* the status message when there is nothing to do
batch_nothing_message(kind) ==
    IF kind = "push"
    THEN [level |-> "Error", text |-> "No sessions defined in project file"]
    ELSE [level |-> "Info", text |-> "No specs to " \o kind]

\* the status message after the loop
batch_result_message(kind, ok_count, errors) ==
    IF ok_count > 0 /\ Len(errors) = 0
    THEN [level |-> "Info", text |-> kind \o ": all done"]
    ELSE IF ok_count > 0
    THEN [level |-> "Warning", text |-> kind \o ": some failed"]
    ELSE [level |-> "Error", text |-> kind \o ": all failed"]

\* the command of one iteration
batch_command(kind, target, ok) ==
    [cmd |-> kind, name |-> target.name, id |-> target.id, ok |-> ok]

\* ensure_endpoint_directory_exists for alpha and beta: both succeeded, or
\* one failed
ensure_directories(name, dirs_ok) ==
    [cmd |-> "ensure_directories", name |-> name, id |-> None, ok |-> dirs_ok]

\* the start of a batch handler, up to the loop: the key handler has set
\* blocking_op; no selected project: nothing happens; no target: a message
batch_begin(kind, term_ok) ==
    LET idx == get_selected_project_index
        project == projects[Unwrap(idx) + 1]
        before == IF kind = "push" THEN push_terminations(project, term_ok) ELSE << >>
        targets == batch_targets(kind, project)
    IN  IF ~(IsSome(idx) /\ Unwrap(idx) < Len(projects))
        THEN /\ bt' = [NoBatch EXCEPT !.pc = "done", !.kind = kind]
             /\ status_message' =
                   IF kind = "push"
                   THEN Some([level |-> "Error", text |-> "No project selected"])
                   ELSE status_message
        ELSE IF Len(targets) = 0
        THEN /\ bt' = [NoBatch EXCEPT !.pc = "done", !.kind = kind, !.log = before]
             /\ status_message' = Some(batch_nothing_message(kind))
        ELSE /\ bt' = [NoBatch EXCEPT
                         !.pc = "running", !.kind = kind, !.targets = targets,
                         !.log = before,
                         !.blocking_op = Some([current |-> None, total |-> None])]
             /\ UNCHANGED status_message

\* the message after the loop reads errors[0]: the Warning and the Error
\* message of terminate, flush and resume
reads_first_error(kind, ok_count, errors) ==
    /\ kind \in {"terminate", "flush", "resume"}
    /\ ~(ok_count > 0 /\ Len(errors) = 0)

\* the batch after an iteration: after the last one the message is set (a
\* read of errors[0] in an empty list panics) and the key handler clears
\* blocking_op
batch_advance(b) ==
    IF b.pos = Len(b.targets)
    THEN IF reads_first_error(b.kind, b.ok_count, b.errors) /\ Len(b.errors) = 0
         THEN [b EXCEPT !.pc = "panicked"]
         ELSE [b EXCEPT !.pc = "done", !.blocking_op = None]
    ELSE b

\* a loop that forgets the error of a failed command
batch_errors_forgotten(errors, name, counted) == errors

\* Err(e) => errors.push(format!("{}: {}", spec.name, e))
batch_errors(errors, name, counted) ==
    IF counted THEN errors ELSE Append(errors, name)

\* the rest of an iteration once the progress is drawn
batch_iteration(draw_ok, dirs_ok, cmd_ok) ==
    LET target == bt.targets[bt.pos + 1]
        issued == bt.kind # "push" \/ dirs_ok
        directories == IF bt.kind = "push"
                       THEN Append(bt.log, ensure_directories(target.name, dirs_ok))
                       ELSE bt.log
        b == [bt EXCEPT
                !.blocking_op = Some([current |-> Some(bt.pos + 1),
                                      total |-> Some(Len(bt.targets))]),
                !.pos = @ + 1,
                !.log = (IF issued THEN Append(directories, batch_command(bt.kind, target, cmd_ok))
                         ELSE directories),
                !.ok_count = IF issued /\ cmd_ok THEN @ + 1 ELSE @,
                !.errors = batch_errors(@, target.name, issued /\ cmd_ok)]
    IN  /\ bt' = batch_advance(b)
        /\ status_message' =
              IF b.pos = Len(b.targets) /\ batch_advance(b).pc = "done"
              THEN Some(batch_result_message(b.kind, b.ok_count, b.errors))
              ELSE status_message

\* start_selected_spec that starts a spec whatever its session
start_selected_spec_again(dirs_ok, cmd_ok) ==
    LET sel_spec == get_selected_spec
        project == projects[Unwrap(sel_spec)[1] + 1]
        spec == project.specs[Unwrap(sel_spec)[2] + 1]
        defined == \E i \in 1..Len(project.file.sessions) :
                      project.file.sessions[i] = spec.name
        nothing == [NoBatch EXCEPT !.pc = "done", !.kind = "start_spec"]
    IN  IF ~(/\ IsSome(sel_spec)
             /\ Unwrap(sel_spec)[1] < Len(projects)
             /\ Unwrap(sel_spec)[2] < Len(project.specs))
        THEN /\ bt' = nothing
             /\ UNCHANGED status_message
        ELSE IF FALSE
        THEN /\ bt' = nothing
             /\ status_message' = Some([level |-> "Warning", text |-> "Spec already running"])
        ELSE IF ~defined
        THEN /\ bt' = nothing
             /\ status_message' =
                   Some([level |-> "Error", text |-> "Session definition not found"])
        ELSE IF ~dirs_ok
        THEN /\ bt' = [nothing EXCEPT !.log = <<ensure_directories(spec.name, FALSE)>>]
             /\ status_message' =
                   Some([level |-> "Error", text |-> "Failed to create directory"])
        ELSE /\ bt' = [nothing EXCEPT
                         !.log = <<ensure_directories(spec.name, TRUE),
                                   [cmd |-> "start", name |-> spec.name,
                                    id |-> None, ok |-> cmd_ok]>>]
             /\ status_message' =
                   IF cmd_ok
                   THEN Some([level |-> "Info", text |-> "Started spec"])
                   ELSE Some([level |-> "Error", text |-> "Failed to start spec"])

\* App::start_selected_spec: nothing without a selected spec, a warning for a
\* spec with a session; else the endpoint directories are made sure of (a
\* failure is reported and ends the handler) and the two-way session created
start_selected_spec(dirs_ok, cmd_ok) ==
    LET sel_spec == get_selected_spec
        project == projects[Unwrap(sel_spec)[1] + 1]
        spec == project.specs[Unwrap(sel_spec)[2] + 1]
        defined == \E i \in 1..Len(project.file.sessions) :
                      project.file.sessions[i] = spec.name
        nothing == [NoBatch EXCEPT !.pc = "done", !.kind = "start_spec"]
    IN  IF ~(/\ IsSome(sel_spec)
             /\ Unwrap(sel_spec)[1] < Len(projects)
             /\ Unwrap(sel_spec)[2] < Len(project.specs))
        THEN /\ bt' = nothing
             /\ UNCHANGED status_message
        ELSE IF is_running(spec)
        THEN /\ bt' = nothing
             /\ status_message' = Some([level |-> "Warning", text |-> "Spec already running"])
        ELSE IF ~defined
        THEN /\ bt' = nothing
             /\ status_message' =
                   Some([level |-> "Error", text |-> "Session definition not found"])
        ELSE IF ~dirs_ok
        THEN /\ bt' = [nothing EXCEPT !.log = <<ensure_directories(spec.name, FALSE)>>]
             /\ status_message' =
                   Some([level |-> "Error", text |-> "Failed to create directory"])
        ELSE /\ bt' = [nothing EXCEPT
                         !.log = <<ensure_directories(spec.name, TRUE),
                                   [cmd |-> "start", name |-> spec.name,
                                    id |-> None, ok |-> cmd_ok]>>]
             /\ status_message' =
                   IF cmd_ok
                   THEN Some([level |-> "Info", text |-> "Started spec"])
                   ELSE Some([level |-> "Error", text |-> "Failed to start spec"])

\* push_selected_spec that creates the push session only when the terminate
\* succeeded
push_selected_spec_stops_on_terminate(term_ok, dirs_ok, cmd_ok) ==
    LET sel_spec == get_selected_spec
        project == projects[Unwrap(sel_spec)[1] + 1]
        spec == project.specs[Unwrap(sel_spec)[2] + 1]
        terminated == is_running(spec) /\ spec.state = "RunningTwoWay"
        before == IF terminated
                  THEN <<[cmd |-> "terminate", name |-> spec.name,
                          id |-> Some(Unwrap(spec.running_session).identifier),
                          ok |-> term_ok]>>
                  ELSE << >>
    IN  IF ~IsSome(sel_spec)
        THEN /\ bt' = [NoBatch EXCEPT !.pc = "done", !.kind = "push_spec"]
             /\ status_message' = Some([level |-> "Error", text |-> "No spec selected"])
        ELSE IF terminated /\ ~term_ok
        THEN /\ bt' = [NoBatch EXCEPT !.pc = "done", !.kind = "push_spec", !.log = before]
             /\ status_message' = Some([level |-> "Error", text |-> "Failed to terminate"])
        ELSE /\ bt' = [NoBatch EXCEPT
                         !.pc = "done", !.kind = "push_spec",
                         !.log = before \o <<ensure_directories(spec.name, TRUE),
                                             [cmd |-> "push", name |-> spec.name \o PushSuffix,
                                              id |-> None, ok |-> cmd_ok]>>]
             /\ status_message' = Some([level |-> "Info", text |-> "Created push session"])

\* App::push_selected_spec: a running two-way session of the spec is
\* terminated (the result ignored), both endpoint directories are made sure
\* of (a failure is reported and ends the handler), the push session is
\* created
push_selected_spec(term_ok, dirs_ok, cmd_ok) ==
    LET sel_spec == get_selected_spec
        project == projects[Unwrap(sel_spec)[1] + 1]
        spec == project.specs[Unwrap(sel_spec)[2] + 1]
        before == IF is_running(spec) /\ spec.state = "RunningTwoWay"
                  THEN <<[cmd |-> "terminate", name |-> spec.name,
                          id |-> Some(Unwrap(spec.running_session).identifier),
                          ok |-> term_ok]>>
                  ELSE << >>
        defined == \E i \in 1..Len(project.file.sessions) :
                      project.file.sessions[i] = spec.name
    IN  IF ~IsSome(sel_spec)
        THEN /\ bt' = [NoBatch EXCEPT !.pc = "done", !.kind = "push_spec"]
             /\ status_message' = Some([level |-> "Error", text |-> "No spec selected"])
        ELSE IF Unwrap(sel_spec)[1] >= Len(projects)
        THEN /\ bt' = [NoBatch EXCEPT !.pc = "done", !.kind = "push_spec"]
             /\ status_message' =
                   Some([level |-> "Error", text |-> "Failed to get selected project"])
        ELSE IF Unwrap(sel_spec)[2] >= Len(project.specs)
        THEN /\ bt' = [NoBatch EXCEPT !.pc = "done", !.kind = "push_spec"]
             /\ status_message' =
                   Some([level |-> "Error", text |-> "Failed to get selected spec"])
        ELSE IF ~defined
        THEN /\ bt' = [NoBatch EXCEPT !.pc = "done", !.kind = "push_spec", !.log = before]
             /\ status_message' =
                   Some([level |-> "Error", text |-> "Session definition not found"])
        ELSE IF ~dirs_ok
        THEN /\ bt' = [NoBatch EXCEPT
                         !.pc = "done", !.kind = "push_spec",
                         !.log = Append(before, ensure_directories(spec.name, FALSE))]
             /\ status_message' =
                   Some([level |-> "Error", text |-> "Failed to create directory"])
        ELSE /\ bt' = [NoBatch EXCEPT
                         !.pc = "done", !.kind = "push_spec",
                         !.log = before \o <<ensure_directories(spec.name, TRUE),
                                             [cmd |-> "push", name |-> spec.name \o PushSuffix,
                                              id |-> None, ok |-> cmd_ok]>>]
             /\ status_message' =
                   IF cmd_ok
                   THEN Some([level |-> "Info", text |-> "Created push session"])
                   ELSE Some([level |-> "Error", text |-> "Failed to create push session"])

\* one iteration of the loop: the progress is noted and drawn (a draw that
\* fails returns the error from the handler), a push makes sure of both
\* endpoint directories (a failure is noted and the command skipped), the
\* command is issued and its result counted
batch_step(draw_ok, dirs_ok, cmd_ok) ==
    IF ~draw_ok
    THEN /\ bt' = [bt EXCEPT
                     !.pc = "aborted",
                     !.blocking_op = Some([current |-> Some(bt.pos + 1),
                                           total |-> Some(Len(bt.targets))])]
         /\ UNCHANGED status_message
    ELSE batch_iteration(draw_ok, dirs_ok, cmd_ok)

(***************************************************************************)
(* Bounded inputs.                                                         *)
(***************************************************************************)
\* a session record as list_sessions() deserialises it (sync_time is skipped by
\* serde and defaults to Unknown)
Session(name, id, mode, conflicts, cycles) ==
    [name |-> name, identifier |-> id, paused |-> FALSE, mode |-> mode,
     successful_cycles |-> cycles, conflicts |-> conflicts, sync_time |-> "Unknown"]

\* the project files that may be on disk, in the order in which a discovery
\* meets them: the patterns are globbed in the order of build_search_paths
\* ("<base>/mutagen-*.yml" before "<base>/*/mutagen.yml"), each glob in
\* alphabetical order
AppFiles ==
    << from_path([dir |-> "/", file_name |-> FileMutagenDevYml], << >>),
       from_path([dir |-> "/a", file_name |-> FileMutagenYml], <<NameB, NameA>>),
       from_path([dir |-> "/b", file_name |-> FileMutagenYml], <<NameA>>) >>

\* the k-th smallest element of a set of numbers
Nth(S, k) == CHOOSE x \in S : Cardinality({y \in S : y < x}) = k - 1

\* discovery results: the files present (a subset of AppFiles), in discovery
\* order
AppFileLists ==
    { [k \in 1..Cardinality(S) |-> AppFiles[Nth(S, k)]] :
        S \in {S \in SUBSET (1..Len(AppFiles)) : Cardinality(S) <= MaxProjects} }

\* the sessions the daemon may report (identifiers "1", "2", "3")
AppSessions ==
    { Session(NameA, <<49>>, None, << >>, None),
      Session(NameA, <<49>>, None, <<"conflict">>, None),
      Session(NameBPush, <<50>>, Some(OneWayReplica), << >>, None),
      Session(NameA, <<51>>, Some("two-way-safe"), << >>, None) }

\* daemon snapshots: identifiers are unique within one list, and the daemon
\* lists its sessions in the order of their creation (here: of their identifiers)
AppSessionLists ==
    {l \in SeqsUpTo(AppSessions, MaxSessions) :
        \A i, j \in 1..Len(l) : i < j => StrLess(l[i].identifier, l[j].identifier)}

\* inputs of the reconciliation harness
RcNames == {NameA, NameB, NameAPush}

RcKeyLists == {l \in SeqsUpTo(RcNames, MaxRcKeys) : IsInjective(l)}

RcSessionShapes ==
    [name : {NameA, NameB, NameAPush, NameBPush},
     mode : {None, Some(OneWayReplica)},
     conflicts : {<< >>, <<"conflict">>}]

RcSessionLists ==
    { [i \in 1..Len(l) |-> Session(l[i].name, <<48 + i>>, l[i].mode, l[i].conflicts, None)] :
        l \in SeqsUpTo(RcSessionShapes, MaxRcSessions) }

(***************************************************************************)
(* The reconciliation harness: correlate_projects_with_sessions applied to *)
(* bounded inputs.                                                         *)
(***************************************************************************)
rc_correlate ==
    /\ rc_pc = "input"
    /\ rc_projects' = correlate_projects_with_sessions(rc_files, rc_sessions)
    /\ rc_pc' = "done"
    /\ UNCHANGED <<rc_files, rc_sessions>>

(***************************************************************************)
(* Specifications.                                                         *)
(***************************************************************************)
\* App::new: should_quit, session_display_mode, viewing_conflicts and
\* blocking_op; no key handled yet
KeysNew ==
    [should_quit |-> FALSE, session_display_mode |-> "ShowPaths",
     viewing_conflicts |-> FALSE, blocking_op |-> None,
     key |-> None, io_ok |-> TRUE, outcome |-> "nothing", result |-> None]

\* RefreshConfig::default, no time gone by
RefreshConfig_default == [enabled |-> TRUE, interval_secs |-> 3, elapsed |-> 0]

\* the discovery harness is off
NoDiscovery == [pc |-> "off", fs |-> << >>, globs |-> << >>, result |-> None]

\* no start_project call yet, no lock file, no session
AuxNew ==
    /\ sp = [lock |-> FALSE, running |-> FALSE, call |-> None]
    /\ bt = NoBatch
    /\ dc = NoDiscovery
    /\ auto = RefreshConfig_default
    /\ ky = KeysNew

\* history: the last step was no fold toggle
NoToggle == [project_idx |-> None, len |-> 0, cursor |-> 0]

\* App::new
AppNew ==
    /\ projects = << >>
    /\ items = << >>
    /\ selected_index = 0
    /\ status_message = None
    /\ has_refresh_error = FALSE
    /\ last_refresh = None
    /\ op = "new"
    /\ snap_files = << >>
    /\ snap_sessions = << >>
    /\ new_paths = {}
    /\ fresh_projects = << >>
    /\ toggled = NoToggle

\* no run of select_next calls yet, the cursor at idx
NoRun(idx) == [start |-> idx, len |-> 0]

\* SelectionManager::new
SelNew ==
    /\ sel = SelectionManager_new
    /\ sel_op = "new"
    /\ sel_was = SelectionManager_new
    /\ nav = NoRun(0)

Init ==
    /\ AppNew
    /\ SelNew
    /\ AuxNew
    /\ rc_files = << >>
    /\ rc_sessions = << >>
    /\ rc_projects = << >>
    /\ rc_pc = "off"

\* history bookkeeping of a step of the application: the operation is noted,
\* the harness is idle
Noted(name) ==
    /\ op' = name
    /\ toggled' = NoToggle
    /\ UNCHANGED <<snap_files, snap_sessions, new_paths, fresh_projects>>
    /\ UNCHANGED selVars /\ UNCHANGED auxVars
    /\ UNCHANGED rcVars

\* history bookkeeping of a fold toggle: the index it was given, the row
\* count and the cursor it found
NotedToggle(project_idx) ==
    /\ op' = "toggle_fold"
    /\ toggled' = [project_idx |-> Some(project_idx), len |-> Len(items),
                   cursor |-> selected_index]
    /\ UNCHANGED <<snap_files, snap_sessions, new_paths, fresh_projects>>
    /\ UNCHANGED selVars /\ UNCHANGED auxVars
    /\ UNCHANGED rcVars

Next ==
    \/ \E f \in AppFileLists, s \in AppSessionLists :
          refresh_sessions_ok(f, s) /\ Noted("refresh_ok")
    \/ refresh_sessions_err /\ Noted("refresh_err")
    \/ select_next /\ Noted("select_next")
    \/ select_previous /\ Noted("select_previous")
    \/ \E i \in 0..MaxProjects : toggle_project_fold(i) /\ NotedToggle(i)

Spec == Init /\ [][Next]_vars

\* the file paths of a list of project files / of a list of projects
FilePaths(files) == {files[i].path : i \in 1..Len(files)}

ProjectPaths(projs) == {projs[i].file.path : i \in 1..Len(projs)}

\* The same application with a refresh history: the snapshots of the last
\* successful refresh, the paths it met for the first time, and a successful
\* refresh that directly follows a successful refresh with the same snapshots
\* noted as "refresh_again".
NextHist ==
    \/ \E f \in AppFileLists, s \in AppSessionLists :
          /\ refresh_sessions_ok(f, s)
          /\ op' = IF /\ op \in {"refresh_ok", "refresh_again"}
                      /\ f = snap_files
                      /\ s = snap_sessions
                   THEN "refresh_again" ELSE "refresh_ok"
          /\ snap_files' = f
          /\ snap_sessions' = s
          /\ new_paths' = FilePaths(f) \ ProjectPaths(projects)
          /\ fresh_projects' = refreshed_projects(<< >>, f, s)
          /\ toggled' = NoToggle
          /\ UNCHANGED selVars /\ UNCHANGED auxVars
          /\ UNCHANGED rcVars
    \/ select_next /\ Noted("select_next")
    \/ \E i \in 0..MaxProjects : toggle_project_fold(i) /\ Noted("toggle_fold")

SpecHist == Init /\ [][NextHist]_vars

InitReconcile ==
    /\ AppNew
    /\ SelNew
    /\ AuxNew
    /\ \E keys \in RcKeyLists :
          rc_files = <<from_path([dir |-> "/a", file_name |-> FileMutagenYml], keys)>>
    /\ rc_sessions \in RcSessionLists
    /\ rc_projects = << >>
    /\ rc_pc = "input"

NextReconcile ==
    rc_correlate /\ UNCHANGED appVars /\ UNCHANGED histVars /\ UNCHANGED selVars /\ UNCHANGED auxVars

SpecReconcile == InitReconcile /\ [][NextReconcile]_vars

\* The SelectionManager driven on its own: every public operation, with list
\* sizes up to MaxSize.  A second update_sizes in a row with the same sizes is
\* noted as "update_sizes_again"; sel_was is the manager before the operation;
\* nav follows the current run of select_next calls (where it started, how
\* many calls), a run of as many calls as there are items starting a new run.
sel_update_sizes(projects_len, sessions_len) ==
    /\ sel' = update_sizes(sel, projects_len, sessions_len)
    /\ sel_op' = IF /\ sel_op \in {"update_sizes", "update_sizes_again"}
                    /\ projects_len = sel.projects_len
                    /\ sessions_len = sel.sessions_len
                 THEN "update_sizes_again" ELSE "update_sizes"
    /\ nav' = NoRun(sel'.selected_index)

sel_select_next ==
    /\ sel' = SelectionManager_select_next(sel)
    /\ sel_op' = "select_next"
    /\ nav' = IF total_items(sel) = 0 THEN nav
              ELSE IF nav.len >= total_items(sel)
              THEN [start |-> sel.selected_index, len |-> 1]
              ELSE [start |-> nav.start, len |-> nav.len + 1]

sel_select_previous ==
    /\ sel' = SelectionManager_select_previous(sel)
    /\ sel_op' = "select_previous"
    /\ nav' = NoRun(sel'.selected_index)

sel_toggle_focus ==
    /\ sel' = toggle_focus(sel)
    /\ sel_op' = "toggle_focus"
    /\ nav' = NoRun(sel'.selected_index)

sel_select_project(project_idx) ==
    /\ sel' = select_project(sel, project_idx)
    /\ sel_op' = "select_project"
    /\ nav' = NoRun(sel'.selected_index)

sel_select_session(session_idx) ==
    /\ sel' = select_session(sel, session_idx)
    /\ sel_op' = "select_session"
    /\ nav' = NoRun(sel'.selected_index)

NextSelection ==
    /\ \/ \E p, n \in 0..MaxSize : sel_update_sizes(p, n)
       \/ sel_select_next
       \/ sel_select_previous
       \/ sel_toggle_focus
       \/ \E i \in 0..MaxSize : sel_select_project(i)
       \/ \E i \in 0..MaxSize : sel_select_session(i)
    /\ sel_was' = sel
    /\ UNCHANGED appVars
    /\ UNCHANGED histVars
    /\ UNCHANGED rcVars
    /\ UNCHANGED auxVars

SpecSelection == Init /\ [][NextSelection]_vars

(***************************************************************************)
(* start_project against a daemon and a lock file that change on their own. *)
(***************************************************************************)
\* a call of start_project: the list query, when it succeeds, reports the
\* sessions that run
sp_start_project(first, list_ok, remove_ok, retry) ==
    LET listed == IF list_ok THEN Some(IF sp.running THEN 1 ELSE 0) ELSE None
        r == start_project(first, listed, sp.lock, remove_ok, retry)
    IN  sp' = [sp EXCEPT
                 !.lock = r.lock,
                 !.call = Some([first |-> first, list_ok |-> list_ok,
                                retry |-> retry, running |-> sp.running,
                                lock_before |-> sp.lock, lock_after |-> r.lock,
                                result |-> r.result, log |-> r.log])]

\* the daemon starts or stops sessions, a lock file appears or disappears
sp_environment(lock, running) ==
    sp' = [sp EXCEPT !.lock = lock, !.running = running]

NextStart ==
    /\ \/ \E first, retry \in RunOutcomes, list_ok, remove_ok \in BOOLEAN :
             sp_start_project(first, list_ok, remove_ok, retry)
       \/ \E lock, running \in BOOLEAN : sp_environment(lock, running)
    /\ UNCHANGED appVars
    /\ UNCHANGED histVars
    /\ UNCHANGED selVars
    /\ UNCHANGED rcVars
    /\ UNCHANGED <<bt, dc, auto, ky>>

SpecStart == Init /\ [][NextStart]_vars

(***************************************************************************)
(* discover_project_files against bounded file systems and glob results.   *)
(***************************************************************************)
\* the paths of the directory entries, in glob's alphabetical order: the third
\* is reached through a symbolic link and resolves to the first
DiscoverPaths ==
    << [dir |-> "/a", file_name |-> FileMutagenYml],
       [dir |-> "/b", file_name |-> FileMutagenYml],
       [dir |-> "/link", file_name |-> FileMutagenYml] >>

\* what a file may be: not a regular file, unreadable or unparsable, or a
\* project file with the keys given
DiscoverFileKinds(keys) ==
    { [is_file |-> FALSE, parsed |-> None],
      [is_file |-> TRUE, parsed |-> None],
      [is_file |-> TRUE, parsed |-> Some(keys)] }

DiscoverFileSystems ==
    { [entries |->
          << [path |-> DiscoverPaths[1], file |-> 1, canon_ok |-> TRUE, excluded |-> x[1]],
             [path |-> DiscoverPaths[2], file |-> 2, canon_ok |-> TRUE, excluded |-> x[2]],
             [path |-> DiscoverPaths[3], file |-> 1, canon_ok |-> c, excluded |-> x[3]] >>,
       files |->
          << [path |-> DiscoverPaths[1], is_file |-> k1.is_file, parsed |-> k1.parsed],
             [path |-> DiscoverPaths[2], is_file |-> k2.is_file, parsed |-> k2.parsed] >>] :
        x \in [1..3 -> BOOLEAN], c \in BOOLEAN,
        k1 \in DiscoverFileKinds(<<NameB, NameA>>), k2 \in DiscoverFileKinds(<<NameA>>) }

\* the results of one glob: an error, or some of the entries in order
DiscoverGlobs ==
    { [ok |-> FALSE, paths |-> << >>] } \cup
    { [ok |-> TRUE, paths |-> [k \in 1..Cardinality(S) |-> Nth(S, k)]] :
        S \in SUBSET (1..Len(DiscoverPaths)) }

InitDiscover ==
    /\ AppNew
    /\ SelNew
    /\ rc_files = << >>
    /\ rc_sessions = << >>
    /\ rc_projects = << >>
    /\ rc_pc = "off"
    /\ sp = [lock |-> FALSE, running |-> FALSE, call |-> None]
    /\ bt = NoBatch
    /\ auto = RefreshConfig_default
    /\ ky = KeysNew
    /\ \E fs \in DiscoverFileSystems, globs \in SeqsUpTo(DiscoverGlobs, MaxPatterns) :
          dc = [pc |-> "input", fs |-> fs, globs |-> globs, result |-> None]

\* the harness calls discover_project_files
dc_discover ==
    /\ dc.pc = "input"
    /\ dc' = [dc EXCEPT !.pc = "done",
                        !.result = Some(discover_project_files(dc.fs, dc.globs))]

NextDiscover ==
    /\ dc_discover
    /\ UNCHANGED appVars
    /\ UNCHANGED histVars
    /\ UNCHANGED selVars
    /\ UNCHANGED rcVars
    /\ UNCHANGED <<sp, bt, auto, ky>>

SpecDiscover == InitDiscover /\ [][NextDiscover]_vars

(***************************************************************************)
(* The project-level batches on an application that shows one project.     *)
(***************************************************************************)
\* the daemon's sessions for the specs "a" and "b", running or paused, and
\* the push session of "a"
BatchSessions ==
    { [Session(n, IF n = NameA THEN <<49>> ELSE <<50>>, None, << >>, None)
          EXCEPT !.paused = p] : n \in {NameA, NameB}, p \in BOOLEAN }
    \cup { Session(NameAPush, <<51>>, Some(OneWayReplica), << >>, None) }

BatchSessionLists ==
    {l \in SeqsUpTo(BatchSessions, MaxSessions) :
        \A i, j \in 1..Len(l) : i < j => StrLess(l[i].identifier, l[j].identifier)}

\* discovery results: nothing, the project file without specs, or the one
\* with the specs "b" and "a"
BatchFileLists == {<< >>, <<AppFiles[1]>>, <<AppFiles[2]>>}

\* the application after a refresh that found at most one project file, the
\* cursor on any row
InitBatch ==
    /\ \E f \in BatchFileLists, l \in BatchSessionLists :
          projects = correlate_projects_with_sessions(f, l)
    /\ items = flatten_projects(projects, Len(projects))
    /\ selected_index \in {i \in 0..Len(items) : i = 0 \/ i < Len(items)}
    /\ status_message = None
    /\ has_refresh_error = FALSE
    /\ last_refresh = Some("now")
    /\ op = "refresh_ok"
    /\ snap_files = << >>
    /\ snap_sessions = << >>
    /\ new_paths = {}
    /\ fresh_projects = << >>
    /\ toggled = NoToggle
    /\ SelNew
    /\ AuxNew
    /\ rc_files = << >>
    /\ rc_sessions = << >>
    /\ rc_projects = << >>
    /\ rc_pc = "off"

\* the results of the terminate commands of a push, one per running session
TerminateOutcomes == [1..MaxSessions -> BOOLEAN]

\* a batch handler is entered (no batch is under way: the event loop is in
\* the handler until it returns, and an error return ends the application)
bt_begin(kind, term_ok) ==
    /\ bt.pc \in {"idle", "done"}
    /\ batch_begin(kind, term_ok)

\* the loop of the batch goes through one iteration
bt_step(draw_ok, dirs_ok, cmd_ok) ==
    /\ bt.pc = "running"
    /\ batch_step(draw_ok, dirs_ok, cmd_ok)

\* p on a spec row: push_selected_spec runs from its start to its return
bt_push_spec(term_ok, dirs_ok, cmd_ok) ==
    /\ bt.pc \in {"idle", "done"}
    /\ push_selected_spec(term_ok, dirs_ok, cmd_ok)

\* s: start_selected_spec runs from its start to its return
bt_start_spec(dirs_ok, cmd_ok) ==
    /\ bt.pc \in {"idle", "done"}
    /\ start_selected_spec(dirs_ok, cmd_ok)

NextBatch ==
    /\ \/ \E kind \in BatchKinds, term_ok \in TerminateOutcomes : bt_begin(kind, term_ok)
       \/ \E dirs_ok, cmd_ok \in BOOLEAN : bt_start_spec(dirs_ok, cmd_ok)
       \/ \E term_ok, dirs_ok, cmd_ok \in BOOLEAN : bt_push_spec(term_ok, dirs_ok, cmd_ok)
       \/ \E draw_ok, dirs_ok, cmd_ok \in BOOLEAN : bt_step(draw_ok, dirs_ok, cmd_ok)
    /\ UNCHANGED <<projects, items, selected_index, has_refresh_error, last_refresh>>
    /\ UNCHANGED histVars
    /\ UNCHANGED selVars
    /\ UNCHANGED rcVars
    /\ UNCHANGED <<sp, dc, auto, ky>>

SpecBatch == InitBatch /\ [][NextBatch]_vars

(***************************************************************************)
(* The event loop of run_app with its idle branch: manual refreshes,       *)
(* navigation, the passing of time and the auto-refresh.                   *)
(***************************************************************************)
\* the longest refresh interval, and the cap of the elapsed seconds
MaxInterval == 2

\* discovery results and daemon snapshots of at most one element
AutoFileLists == {f \in AppFileLists : Len(f) <= 1}

AutoSessionLists == {l \in AppSessionLists : Len(l) <= 1}

\* app.should_auto_refresh() in the current state
ShouldAutoRefresh ==
    should_auto_refresh(auto.enabled, auto.interval_secs, has_refresh_error,
                        last_refresh, auto.elapsed)

\* App::new(config) for any refresh configuration
InitAuto ==
    /\ AppNew
    /\ SelNew
    /\ rc_files = << >>
    /\ rc_sessions = << >>
    /\ rc_projects = << >>
    /\ rc_pc = "off"
    /\ sp = [lock |-> FALSE, running |-> FALSE, call |-> None]
    /\ bt = NoBatch
    /\ dc = NoDiscovery
    /\ ky = KeysNew
    /\ auto \in [enabled : BOOLEAN, interval_secs : 0..MaxInterval, elapsed : {0}]

\* history bookkeeping of a step of the event loop: the operation is noted,
\* elapsed seconds have gone by since last_refresh
NotedAuto(name, elapsed) ==
    /\ op' = name
    /\ toggled' = NoToggle
    /\ auto' = [auto EXCEPT !.elapsed = elapsed]
    /\ UNCHANGED <<snap_files, snap_sessions, new_paths, fresh_projects>>
    /\ UNCHANGED selVars
    /\ UNCHANGED rcVars
    /\ UNCHANGED <<sp, bt, dc, ky>>

\* a second goes by without an event
auto_tick ==
    /\ auto.elapsed < MaxInterval
    /\ UNCHANGED appVars
    /\ NotedAuto("tick", auto.elapsed + 1)

\* run_app, no event polled: should_auto_refresh() holds and the refresh succeeds
idle_refresh_ok(project_files, sessions) ==
    /\ ShouldAutoRefresh
    /\ refresh_sessions_ok(project_files, sessions)
    /\ NotedAuto("auto_refresh_ok", 0)

\* run_app, no event polled: should_auto_refresh() holds and the refresh
\* fails (let _ = drops the error)
idle_refresh_err ==
    /\ ShouldAutoRefresh
    /\ refresh_sessions_err
    /\ NotedAuto("auto_refresh_err", auto.elapsed)

NextAuto ==
    \/ \E f \in AutoFileLists, s \in AutoSessionLists :
          refresh_sessions_ok(f, s) /\ NotedAuto("refresh_ok", 0)
    \/ refresh_sessions_err /\ NotedAuto("refresh_err", auto.elapsed)
    \/ \E f \in AutoFileLists, s \in AutoSessionLists : idle_refresh_ok(f, s)
    \/ idle_refresh_err
    \/ select_next /\ NotedAuto("select_next", auto.elapsed)
    \/ select_previous /\ NotedAuto("select_previous", auto.elapsed)
    \/ \E i \in 0..MaxProjects : toggle_project_fold(i) /\ NotedAuto("toggle_fold", auto.elapsed)
    \/ auto_tick

SpecAuto == InitAuto /\ [][NextAuto]_vars

(***************************************************************************)
(* Key handling on an application that shows the result of a refresh.      *)
(***************************************************************************)
\* the application after a refresh of at most one project file, the cursor
\* on any row
InitKeys ==
    /\ \E f \in AutoFileLists, l \in AutoSessionLists :
          projects = correlate_projects_with_sessions(f, l)
    /\ items = flatten_projects(projects, Len(projects))
    /\ selected_index \in {i \in 0..Len(items) : i = 0 \/ i < Len(items)}
    /\ status_message = None
    /\ has_refresh_error = FALSE
    /\ last_refresh = Some("now")
    /\ op = "refresh_ok"
    /\ snap_files = << >>
    /\ snap_sessions = << >>
    /\ new_paths = {}
    /\ fresh_projects = << >>
    /\ toggled = NoToggle
    /\ SelNew
    /\ AuxNew
    /\ rc_files = << >>
    /\ rc_sessions = << >>
    /\ rc_projects = << >>
    /\ rc_pc = "off"

\* the key events: every code without modifier, and Ctrl with c, q and s
KeyEvents ==
    [code : KeyCodes, ctrl : {FALSE}] \cup [code : {"c", "q", "s"}, ctrl : {TRUE}]

\* a key whose handler draws on the terminal, the editor and the daemon, for
\* every way these may behave
command_key_event ==
    \E key \in KeyEvents, is_gui, io_ok \in BOOLEAN, outcome \in CommandOutcomes :
        /\ key.code \in MutatingKeys \cup {"e"}
        /\ handle_key_event(key.code, key.ctrl, is_gui, io_ok, outcome)

\* a key that is handled within the application
view_key_event ==
    \E key \in KeyEvents :
        /\ key.code \notin MutatingKeys \cup {"e"}
        /\ handle_key_event(key.code, key.ctrl, FALSE, TRUE, "nothing")

NextKeys ==
    /\ \/ command_key_event
       \/ view_key_event
    /\ UNCHANGED histVars
    /\ UNCHANGED selVars
    /\ UNCHANGED rcVars
    /\ UNCHANGED <<sp, bt, dc, auto>>

SpecKeys == InitKeys /\ [][NextKeys]_vars

(***************************************************************************)
(* Refreshes whose sessions report successful-cycle counters.              *)
(***************************************************************************)
\* the largest successful-cycle counter
MaxCycles == 2

\* successfulCycles as deserialised: missing, or a counter
SyncCycles == {None} \cup {Some(c) : c \in 0..MaxCycles}

\* the daemon's sessions for the specs "a" and "b" with their counters
SyncSessions ==
    { Session(n, IF n = NameA THEN <<49>> ELSE <<50>>, None, << >>, c) :
        n \in {NameA, NameB}, c \in SyncCycles }

SyncSessionLists ==
    {l \in SeqsUpTo(SyncSessions, MaxSessions) :
        \A i, j \in 1..Len(l) : i < j => StrLess(l[i].identifier, l[j].identifier)}

\* discovery results: nothing, or the project file with the specs "b" and "a"
SyncFileLists == {<< >>, <<AppFiles[2]>>}

NextSync ==
    \/ \E f \in SyncFileLists, s \in SyncSessionLists :
          refresh_sessions_ok(f, s) /\ Noted("refresh_ok")
    \/ refresh_sessions_err /\ Noted("refresh_err")
    \/ select_next /\ Noted("select_next")

SpecSync == Init /\ [][NextSync]_vars

(***************************************************************************)
(* Vocabulary of the properties.                                           *)
(***************************************************************************)
\* a session whose mode marks one-way replication
IsOneWay(s) == s.mode = Some(OneWayReplica)

\* positions of the sessions named n that are not one-way
TwoWayNamed(sessions, n) ==
    {i \in 1..Len(sessions) : sessions[i].name = n /\ ~IsOneWay(sessions[i])}

\* positions of the one-way sessions named n + "-push"
PushNamed(sessions, n) ==
    {i \in 1..Len(sessions) : sessions[i].name = n \o PushSuffix /\ IsOneWay(sessions[i])}

\* positions of the specs named n
SpecsNamed(specs, n) == {k \in 1..Len(specs) : specs[k].name = n}

\* positions of the specs whose attached session has a conflict
SpecsInConflict(specs) ==
    {k \in 1..Len(specs) :
        /\ specs[k].running_session # None
        /\ Len(specs[k].running_session[1].conflicts) >= 1}

\* positions of the specs in a given state
SpecsInState(specs, st) == {k \in 1..Len(specs) : specs[k].state = st}

RcDone == rc_pc = "done"

(***************************************************************************)
(* Properties of the reconciliation (checked under SpecReconcile).         *)
(***************************************************************************)
\* C1: a configured spec name n for which the session list has neither a
\* non-one-way session named n nor a one-way session named n + "-push" is
\* reconciled to exactly NotRunning specs with nothing attached, and the
\* reconciliation yields one project per project file.
C1_NoMatchNotRunning ==
    RcDone =>
        /\ Len(rc_projects) = Len(rc_files)
        /\ \A p \in 1..Len(rc_projects) :
              \A n \in Range(rc_files[p].sessions) :
                  (TwoWayNamed(rc_sessions, n) = {} /\ PushNamed(rc_sessions, n) = {})
                  => /\ SpecsNamed(rc_projects[p].specs, n) # {}
                     /\ \A k \in SpecsNamed(rc_projects[p].specs, n) :
                           /\ rc_projects[p].specs[k].state = "NotRunning"
                           /\ rc_projects[p].specs[k].running_session = None

\* C1 witness: spec "a" came out NotRunning although the list holds a session
\* named "a" (a one-way one) and a session named "a-push" (not a one-way one)
C1_Witness ==
    /\ RcDone
    /\ \E k \in 1..Len(rc_projects[1].specs) :
          /\ rc_projects[1].specs[k].name = NameA
          /\ rc_projects[1].specs[k].state = "NotRunning"
    /\ \E i \in 1..Len(rc_sessions) :
          rc_sessions[i].name = NameA /\ IsOneWay(rc_sessions[i])
    /\ \E i \in 1..Len(rc_sessions) :
          rc_sessions[i].name = NameAPush /\ ~IsOneWay(rc_sessions[i])

\* C2: whenever the session list holds a non-one-way session named n, spec n
\* is RunningTwoWay with a non-one-way session named n attached (the first
\* such session of the list), whether or not a one-way n + "-push" exists.
C2_TwoWayPrecedence ==
    RcDone =>
        \A p \in 1..Len(rc_projects) :
            \A n \in Range(rc_files[p].sessions) :
                TwoWayNamed(rc_sessions, n) # {}
                => /\ SpecsNamed(rc_projects[p].specs, n) # {}
                   /\ \A k \in SpecsNamed(rc_projects[p].specs, n) :
                         /\ rc_projects[p].specs[k].state = "RunningTwoWay"
                         /\ rc_projects[p].specs[k].running_session
                               = Some(rc_sessions[SetMin(TwoWayNamed(rc_sessions, n))])

\* C2 witness: a two-way session "a" and a one-way session "a-push" coexist,
\* the push one first, and spec "a" is RunningTwoWay
C2_Witness ==
    /\ RcDone
    /\ TwoWayNamed(rc_sessions, NameA) # {}
    /\ PushNamed(rc_sessions, NameA) # {}
    /\ SetMin(PushNamed(rc_sessions, NameA)) < SetMin(TwoWayNamed(rc_sessions, NameA))
    /\ \E k \in 1..Len(rc_projects[1].specs) :
          /\ rc_projects[1].specs[k].name = NameA
          /\ rc_projects[1].specs[k].state = "RunningTwoWay"

\* C3: with no non-one-way session named n but a one-way session named
\* n + "-push", spec n is RunningPush with that session attached; and a spec
\* is RunningPush only if the list holds a one-way session named n + "-push"
\* (a session of that name with another mode never makes it RunningPush).
C3_PushMatching ==
    RcDone =>
        \A p \in 1..Len(rc_projects) :
            \A k \in 1..Len(rc_projects[p].specs) :
                LET spec == rc_projects[p].specs[k]
                IN  /\ (TwoWayNamed(rc_sessions, spec.name) = {}
                        /\ PushNamed(rc_sessions, spec.name) # {})
                       => /\ spec.state = "RunningPush"
                          /\ spec.running_session
                                = Some(rc_sessions[SetMin(PushNamed(rc_sessions, spec.name))])
                    /\ spec.state = "RunningPush"
                       => PushNamed(rc_sessions, spec.name) # {}

\* C3 witness: the list holds a one-way session named "a", a non-one-way
\* session named "a-push" and, after it, a one-way session named "a-push";
\* spec "a" is RunningPush
C3_Witness ==
    /\ RcDone
    /\ \E i \in 1..Len(rc_sessions) :
          rc_sessions[i].name = NameA /\ IsOneWay(rc_sessions[i])
    /\ \E i, j \in 1..Len(rc_sessions) :
          /\ i < j
          /\ rc_sessions[i].name = NameAPush /\ ~IsOneWay(rc_sessions[i])
          /\ rc_sessions[j].name = NameAPush /\ IsOneWay(rc_sessions[j])
    /\ \E k \in 1..Len(rc_projects[1].specs) :
          /\ rc_projects[1].specs[k].name = NameA
          /\ rc_projects[1].specs[k].state = "RunningPush"

\* C5: the reconciled spec list has exactly one spec per configured name and
\* is in strictly ascending lexicographic name order (so it is the same list
\* of names for every iteration order of the keys and every session order).
C5_SortedOnePerName ==
    RcDone =>
        \A p \in 1..Len(rc_projects) :
            LET specs == rc_projects[p].specs
            IN  /\ Len(specs) = Len(rc_files[p].sessions)
                /\ {specs[k].name : k \in 1..Len(specs)} = Range(rc_files[p].sessions)
                /\ \A k \in 1..(Len(specs) - 1) : StrLess(specs[k].name, specs[k + 1].name)

\* C5 witness: the keys were iterated as "b", "a-push", "a" and the sessions
\* listed with "b" before "a"; the specs are "a", "a-push", "b"
C5_Witness ==
    /\ RcDone
    /\ rc_files[1].sessions = <<NameB, NameAPush, NameA>>
    /\ \E i, j \in 1..Len(rc_sessions) :
          i < j /\ rc_sessions[i].name = NameB /\ rc_sessions[j].name = NameA
    /\ Len(rc_projects[1].specs) = 3
    /\ rc_projects[1].specs[1].name = NameA
    /\ rc_projects[1].specs[2].name = NameAPush
    /\ rc_projects[1].specs[3].name = NameB

\* C6: the auto-unfold recommendation for a project's specs is 'unfolded' iff
\* (a) some spec has a conflict, or (b) the number of running specs is
\* strictly between 0 and the total, or (c) a RunningTwoWay and a RunningPush
\* spec are both present.
C6_AutoUnfoldIff ==
    RcDone =>
        \A p \in 1..Len(rc_projects) :
            LET specs == rc_projects[p].specs
                running == Cardinality({k \in 1..Len(specs) : specs[k].state # "NotRunning"})
            IN  should_auto_unfold_specs(specs)
                <=> \/ SpecsInConflict(specs) # {}
                    \/ (0 < running /\ running < Len(specs))
                    \/ (SpecsInState(specs, "RunningTwoWay") # {}
                        /\ SpecsInState(specs, "RunningPush") # {})

\* C6 witness: three specs, all RunningTwoWay, no conflict: folded
C6_Witness ==
    /\ RcDone
    /\ Len(rc_projects[1].specs) = 3
    /\ \A k \in 1..3 : rc_projects[1].specs[k].state = "RunningTwoWay"
    /\ SpecsInConflict(rc_projects[1].specs) = {}
    /\ ~should_auto_unfold_specs(rc_projects[1].specs)
    /\ rc_projects[1].folded

\* C7: a project in which exactly one spec's attached session has a conflict
\* is recommended 'unfolded', and the newly built project has folded = FALSE.
C7_ConflictDominance ==
    RcDone =>
        \A p \in 1..Len(rc_projects) :
            Cardinality(SpecsInConflict(rc_projects[p].specs)) = 1
            => /\ should_auto_unfold_specs(rc_projects[p].specs)
               /\ rc_projects[p].folded = FALSE

\* C7 witness: three specs, all RunningTwoWay, exactly one of them in conflict,
\* and the new project is unfolded
C7_Witness ==
    /\ RcDone
    /\ Len(rc_projects[1].specs) = 3
    /\ \A k \in 1..3 : rc_projects[1].specs[k].state = "RunningTwoWay"
    /\ Cardinality(SpecsInConflict(rc_projects[1].specs)) = 1
    /\ ~rc_projects[1].folded

(***************************************************************************)
(* Properties of the application (checked under Spec and SpecHist).        *)
(***************************************************************************)
\* C4: in every reachable state every reconciled spec has state NotRunning
\* iff nothing is attached, RunningTwoWay iff the attached session has the
\* spec's name and is not one-way, RunningPush iff the attached session is
\* named spec name + "-push" and is one-way; at most one session is attached.
C4_StateTagInvariant ==
    \A p \in 1..Len(projects) :
        \A k \in 1..Len(projects[p].specs) :
            LET spec == projects[p].specs[k]
                att == spec.running_session
            IN  /\ Len(att) <= 1
                /\ spec.state \in {"NotRunning", "RunningTwoWay", "RunningPush"}
                /\ (spec.state = "NotRunning") <=> (att = None)
                /\ (spec.state = "RunningTwoWay")
                   <=> (att # None /\ att[1].name = spec.name /\ ~IsOneWay(att[1]))
                /\ (spec.state = "RunningPush")
                   <=> (att # None /\ att[1].name = spec.name \o PushSuffix
                        /\ IsOneWay(att[1]))

\* C4 witness: after a fold toggle, a folded project holds a RunningTwoWay
\* spec (attached session in mode "two-way-safe") and a RunningPush spec
C4_Witness ==
    /\ op = "toggle_fold"
    /\ \E p \in 1..Len(projects) :
          /\ \E k \in SpecsInState(projects[p].specs, "RunningTwoWay") :
                projects[p].specs[k].running_session[1].mode = Some("two-way-safe")
          /\ SpecsInState(projects[p].specs, "RunningPush") # {}
          /\ projects[p].folded

\* an operation note of a successful refresh
RefreshedOp(o) == o \in {"refresh_ok", "refresh_again"}

\* C8: a successful refresh leaves the folded flag of every project whose
\* file path occurred in the previous generation as it was before.
C8_FoldCarryover ==
    [][RefreshedOp(op') =>
          \A i \in 1..Len(projects') :
              \A j \in 1..Len(projects) :
                  projects'[i].file.path = projects[j].file.path
                  => projects'[i].folded = projects[j].folded]_vars

\* C8 witness: after a successful refresh a project seen before is folded
\* although one of its specs is in conflict, and another project seen before
\* is unfolded although the recommendation for it is 'folded'
C8_Witness ==
    /\ RefreshedOp(op)
    /\ \E i, j \in 1..Len(projects) :
          /\ projects[i].file.path \notin new_paths
          /\ projects[i].folded
          /\ SpecsInConflict(projects[i].specs) # {}
          /\ projects[j].file.path \notin new_paths
          /\ ~projects[j].folded
          /\ ~should_auto_unfold_specs(projects[j].specs)

\* C9: after a successful refresh every project whose file path did not occur
\* in the previous generation has folded = the negation of the auto-unfold
\* recommendation for its reconciled specs.
C9_NewProjectAutoFold ==
    [][RefreshedOp(op') =>
          \A i \in 1..Len(projects') :
              projects'[i].file.path \notin ProjectPaths(projects)
              => projects'[i].folded = ~should_auto_unfold_specs(projects'[i].specs)]_vars

\* C9 witness: a successful refresh, not the first one, met a new file with the
\* display name of a project seen before; the new project is unfolded as
\* recommended while the old one kept a flag against the recommendation
C9_Witness ==
    /\ RefreshedOp(op)
    /\ \E i, j \in 1..Len(projects) :
          /\ projects[i].file.path \in new_paths
          /\ projects[j].file.path \notin new_paths
          /\ display_name(projects[i].file) = display_name(projects[j].file)
          /\ ~projects[i].folded
          /\ should_auto_unfold_specs(projects[i].specs)
          /\ projects[j].folded = should_auto_unfold_specs(projects[j].specs)

\* C10: a successful refresh that directly follows a successful refresh with
\* identical snapshots leaves every project's folded flag, the project order,
\* the row list and the cursor unchanged.
C10_RefreshIdempotent ==
    [][op' = "refresh_again" =>
          /\ Len(projects') = Len(projects)
          /\ \A i \in 1..Len(projects) :
                /\ projects'[i].file.path = projects[i].file.path
                /\ projects'[i].folded = projects[i].folded
          /\ items' = items
          /\ selected_index' = selected_index]_vars

\* C10 witness: the second of two identical refreshes has happened with two
\* projects of the same display name, one of them folded against the
\* recommendation, and the cursor not on the first row
C10_Witness ==
    /\ op = "refresh_again"
    /\ Len(projects) = 2
    /\ display_name(projects[1].file) = display_name(projects[2].file)
    /\ \E i \in 1..2 :
          projects[i].folded /\ should_auto_unfold_specs(projects[i].specs)
    /\ selected_index > 0
    /\ Len(snap_sessions) > 0

\* a spec with the sync_time of its attached session blanked
SpecSansSyncTime(spec) ==
    IF spec.running_session = None THEN spec
    ELSE [spec EXCEPT !.running_session = Some([spec.running_session[1] EXCEPT !.sync_time = "-"])]

\* a project list without the folded flags
SansFolded(projs) ==
    [i \in 1..Len(projs) |-> [file |-> projs[i].file, specs |-> projs[i].specs]]

\* a project list without the folded flags and without the sync_time of the
\* attached sessions
SansFoldedAndSyncTime(projs) ==
    [i \in 1..Len(projs) |->
        [file |-> projs[i].file,
         specs |-> [k \in 1..Len(projs[i].specs) |-> SpecSansSyncTime(projs[i].specs[k])]]]

\* C11 as stated: after a successful refresh the project list without its
\* folded flags is the list the same snapshots give without a previous
\* generation (fresh_projects), so nothing but folded depends on the previous
\* generation.
C11_OnlyFoldedCarried ==
    [][RefreshedOp(op') =>
          SansFolded(projects') = SansFolded(fresh_projects')]_vars

\* C11 amended: after a successful refresh the project list without its
\* folded flags and without the sync_time of the attached sessions is the list
\* the same snapshots give without a previous generation: spec names, state
\* tags and every other field of the attached sessions depend on the current
\* snapshots alone.
C11_FoldedAndSyncTimeCarried ==
    [][RefreshedOp(op') =>
          SansFoldedAndSyncTime(projects') = SansFoldedAndSyncTime(fresh_projects')]_vars

\* C11 witness: after a refresh that was not the first, a project kept a
\* folded flag that the snapshots alone would not give it, and an attached
\* session has the sync_time Never of a session first seen after the first
\* refresh
C11_Witness ==
    /\ RefreshedOp(op)
    /\ new_paths = {}
    /\ \E i \in 1..Len(projects) :
          /\ projects[i].folded # fresh_projects[i].folded
          /\ \E k \in 1..Len(projects[i].specs) :
                /\ projects[i].specs[k].running_session # None
                /\ projects[i].specs[k].running_session[1].sync_time = "Never"

(***************************************************************************)
(* Properties of the row list (checked under Spec).                        *)
(***************************************************************************)
\* number of spec rows the first n projects contribute: the spec counts of
\* those of them that are not folded
RECURSIVE SpecRowsOf(_, _)
SpecRowsOf(projs, n) ==
    IF n = 0 THEN 0
    ELSE SpecRowsOf(projs, n - 1)
            + (IF projs[n].folded THEN 0 ELSE Len(projs[n].specs))

\* position in the row sequence (from 1) of the header of the p-th project
HeaderPos(projs, p) == p + SpecRowsOf(projs, p - 1)

\* C12: the row list has one ProjectHeader(p) per project, in list order,
\* each followed, only if the project is not folded, by Spec(p, 0..k-1) in
\* spec order, and nothing else: its length is the number of projects plus
\* the spec counts of the unfolded projects.
C12_RebuildFlattening ==
    /\ Len(items) = Len(projects) + SpecRowsOf(projects, Len(projects))
    /\ \A p \in 1..Len(projects) :
          /\ items[HeaderPos(projects, p)] = [kind |-> "Project", index |-> p - 1]
          /\ ~projects[p].folded =>
                \A s \in 1..Len(projects[p].specs) :
                    items[HeaderPos(projects, p) + s]
                        = [kind |-> "Spec", project_index |-> p - 1, spec_index |-> s - 1]

\* C12 witness: a folded project with two specs is followed by an unfolded
\* project with one spec: three rows
C12_Witness ==
    /\ Len(projects) = 2
    /\ projects[1].folded /\ Len(projects[1].specs) = 2
    /\ ~projects[2].folded /\ Len(projects[2].specs) = 1
    /\ Len(items) = 3
    /\ items[3].kind = "Spec"

\* C13: in every reachable state no Spec row belongs to a folded project,
\* every project has exactly one header row, and a folded project still has
\* one spec per configured name in the model.
C13_FoldedHidesRows ==
    /\ \A r \in 1..Len(items) :
          items[r].kind = "Spec" =>
              /\ items[r].project_index < Len(projects)
              /\ ~projects[items[r].project_index + 1].folded
    /\ \A p \in 1..Len(projects) :
          Cardinality({r \in 1..Len(items) :
                          items[r] = [kind |-> "Project", index |-> p - 1]}) = 1
    /\ \A p \in 1..Len(projects) :
          projects[p].folded =>
              {projects[p].specs[k].name : k \in 1..Len(projects[p].specs)}
                  = Range(projects[p].file.sessions)

\* C13 witness: a project with two specs was folded by a toggle and is
\* followed by an unfolded project with a spec row
C13_Witness ==
    /\ op = "toggle_fold"
    /\ \E p \in 1..Len(projects) :
          /\ projects[p].folded
          /\ Len(projects[p].specs) = 2
          /\ p < Len(projects)
          /\ ~projects[p + 1].folded
          /\ Len(projects[p + 1].specs) = 1

(***************************************************************************)
(* Properties of the SelectionManager (checked under SpecSelection).       *)
(***************************************************************************)
\* C14: after any sequence of update_sizes (growing or shrinking the list),
\* select_next, select_previous, toggle_focus, select_project and
\* select_session, the selected index is a natural number and, whenever the
\* list is not empty, lies in [0, len); the remembered positions are natural
\* numbers too (no subtraction went below zero).
C14_CursorInRange ==
    /\ sel.selected_index \in Nat
    /\ total_items(sel) > 0 => sel.selected_index < total_items(sel)
    /\ \A o \in {sel.last_project_index, sel.last_session_index} :
          IsSome(o) => Unwrap(o) \in Nat

\* C14 witness: update_sizes shrank a list whose last item was selected, to a
\* shorter list that is not empty, and the last item is selected again
C14_Witness ==
    /\ sel_op = "update_sizes"
    /\ total_items(sel) > 0
    /\ total_items(sel) + 2 <= total_items(sel_was)
    /\ sel_was.selected_index = total_items(sel_was) - 1
    /\ sel.selected_index = total_items(sel) - 1

\* an operation note of update_sizes
ResizedOp(o) == o \in {"update_sizes", "update_sizes_again"}

\* C15: a second update_sizes in a row with the same sizes leaves the
\* selected index and every other field of the SelectionManager unchanged.
C15_RebuildIdempotent ==
    [][sel_op' = "update_sizes_again" => sel' = sel]_vars

\* C15 witness: the second of two equal update_sizes has happened, the first
\* of which shrank the list and moved the selected index to the last item, in
\* the sessions area
C15_Witness ==
    /\ sel_op = "update_sizes_again"
    /\ sel_was = sel
    /\ total_items(sel) >= 2
    /\ sel.selected_index = total_items(sel) - 1
    /\ sel.focus_area = "Sessions"

\* C16 as stated: update_sizes resets the selected index to 0 when the list
\* was empty before and is not empty after; otherwise it keeps an index below
\* the new length and turns an index at or beyond a non-zero new length into
\* len - 1.
C16_CursorRule ==
    [][ResizedOp(sel_op') =>
          IF total_items(sel) = 0 /\ total_items(sel') > 0
          THEN sel'.selected_index = 0
          ELSE IF sel.selected_index < total_items(sel')
          THEN sel'.selected_index = sel.selected_index
          ELSE total_items(sel') > 0 => sel'.selected_index = total_items(sel') - 1]_vars

\* C18: select_next moves the selected index from i to (i + 1) mod len (from
\* the last item to 0), select_previous from i to i - 1 and from 0 to
\* len - 1; on an empty list both leave the whole SelectionManager unchanged.
C18_NextPreviousWrap ==
    [][/\ sel_op' = "select_next" =>
             IF total_items(sel) = 0 THEN sel' = sel
             ELSE /\ sel'.selected_index = (sel.selected_index + 1) % total_items(sel)
                  /\ sel.selected_index = total_items(sel) - 1 => sel'.selected_index = 0
       /\ sel_op' = "select_previous" =>
             IF total_items(sel) = 0 THEN sel' = sel
             ELSE IF sel.selected_index = 0
             THEN sel'.selected_index = total_items(sel) - 1
             ELSE sel'.selected_index = sel.selected_index - 1]_vars

\* C18 witness: select_previous went from item 0 to the last of at least
\* three items
C18_Witness ==
    /\ sel_op = "select_previous"
    /\ total_items(sel) >= 3
    /\ sel_was.selected_index = 0
    /\ sel.selected_index = total_items(sel) - 1

\* C19: as many select_next calls in a row as the list has items (n >= 1, no
\* other operation in between) bring the selected index back to where the run
\* started, and a select_previous right after a select_next brings it back to
\* where it was before the select_next.
C19_NextCycleAndUndo ==
    [][/\ (sel_op' = "select_next" /\ total_items(sel') >= 1
            /\ nav'.len = total_items(sel'))
          => sel'.selected_index = nav'.start
       /\ (sel_op = "select_next" /\ sel_op' = "select_previous"
            /\ total_items(sel) >= 1)
          => sel'.selected_index = sel_was.selected_index]_vars

\* C19 witness: four rows (one project and three further rows), a run of four
\* select_next calls that started at row 0 is back at row 0
C19_Witness ==
    /\ sel_op = "select_next"
    /\ sel.projects_len = 1 /\ sel.sessions_len = 3
    /\ nav.start = 0 /\ nav.len = 4
    /\ sel.selected_index = 0
    /\ sel_was.selected_index = 3

\* a row that is a spec row of the project with 0-based index i
IsSpecRowOf(r, i) == r.kind = "Spec" /\ r.project_index = i

\* the rows without the spec rows of the project with 0-based index i
RowsWithoutSpecsOf(rows, i) == SelectSeq(rows, LAMBDA r : ~IsSpecRowOf(r, i))

\* the rows are the flattening of the projects: the headers in project order,
\* each followed by its spec rows unless folded, and nothing else
RowsShow(rows, projs) ==
    /\ Len(rows) = Len(projs) + SpecRowsOf(projs, Len(projs))
    /\ \A p \in 1..Len(projs) :
          /\ rows[HeaderPos(projs, p)] = [kind |-> "Project", index |-> p - 1]
          /\ ~projs[p].folded =>
                \A s \in 1..Len(projs[p].specs) :
                    rows[HeaderPos(projs, p) + s]
                        = [kind |-> "Spec", project_index |-> p - 1, spec_index |-> s - 1]

\* C17: a toggle that folds an unfolded project whose header row is above
\* the cursor's row removes exactly that project's spec rows (as many as it
\* has specs) and keeps the other rows in order; afterwards the cursor is at
\* most len - 1.
C17_FoldAboveCursor ==
    [][(op' = "toggle_fold" /\ IsSome(toggled'.project_idx)) =>
          LET p == Unwrap(toggled'.project_idx) + 1
          IN  (/\ p <= Len(projects)
               /\ ~projects[p].folded
               /\ HeaderPos(projects, p) - 1 < selected_index)
              => /\ items' = RowsWithoutSpecsOf(items, p - 1)
                 /\ Len(items') = Len(items) - Len(projects[p].specs)
                 /\ selected_index' <= Len(items') - 1]_vars

\* C17 witness: the first project, with two specs, was folded while the
\* cursor was on the last of five rows; three rows are left and the cursor
\* is on the last of them
C17_Witness ==
    /\ op = "toggle_fold"
    /\ toggled.project_idx = Some(0)
    /\ Len(projects) = 2
    /\ projects[1].folded /\ Len(projects[1].specs) = 2
    /\ toggled.len = 5 /\ toggled.cursor = 4
    /\ Len(items) = 3 /\ selected_index = 2

\* what a fold toggle with 0-based index i does: in range, it flips the
\* folded flag of project i and nothing else of the projects, the rows are
\* the flattening of the new projects, and the cursor keeps its index unless
\* that is beyond the new last row, when it becomes len - 1; out of range,
\* nothing of the application changes
ToggleEffect(i) ==
    IF i < Len(projects)
    THEN /\ Len(projects') = Len(projects)
         /\ \A p \in 1..Len(projects) :
               projects'[p] = IF p = i + 1
                              THEN [projects[p] EXCEPT !.folded = ~projects[p].folded]
                              ELSE projects[p]
         /\ RowsShow(items', projects')
         /\ selected_index' = IF selected_index > Len(items') - 1
                               THEN Len(items') - 1
                               ELSE selected_index
    ELSE appVars' = appVars

\* the cursor was not moved onto the header of the project with index i
NotMovedOntoHeader(i) ==
    (i < Len(projects) /\ selected_index' # selected_index)
        => items'[selected_index' + 1] # [kind |-> "Project", index |-> i]

\* C20 as stated: toggle_fold(i) in range flips only project i's flag,
\* rebuilds the rows, keeps the cursor's index unless it is beyond the new last
\* row (then len - 1), and never moves the cursor onto the toggled header;
\* out of range it changes nothing.
C20_ToggleNeverOntoHeader ==
    [][(op' = "toggle_fold" /\ IsSome(toggled'.project_idx)) =>
          /\ ToggleEffect(Unwrap(toggled'.project_idx))
          /\ NotMovedOntoHeader(Unwrap(toggled'.project_idx))]_vars

\* C20 amended: toggle_fold(i) in range flips only project i's flag,
\* rebuilds the rows, and moves the cursor only by the clamp: its index is
\* unchanged unless it is beyond the new last row, when it becomes len - 1
\* (which may be the toggled header); out of range it changes nothing.
C20_ToggleFrame ==
    [][(op' = "toggle_fold" /\ IsSome(toggled'.project_idx)) =>
          ToggleEffect(Unwrap(toggled'.project_idx))]_vars

\* C20 witness: the second of two projects was folded with the cursor on its
\* spec row, the last row; the first project still shows its two spec rows
\* and the cursor was clamped to the new last row
C20_Witness ==
    /\ op = "toggle_fold"
    /\ toggled.project_idx = Some(1)
    /\ Len(projects) = 2
    /\ ~projects[1].folded /\ Len(projects[1].specs) = 2
    /\ projects[2].folded /\ Len(projects[2].specs) = 1
    /\ toggled.len = 5 /\ toggled.cursor = 4
    /\ Len(items) = 4 /\ selected_index = 3

\* C21: when the cursor addresses ProjectHeader(p) the selected project
\* index is p and no spec is selected; when it addresses Spec(p, s) the
\* selected project index is p and the selected spec is (p, s); with no rows
\* both are none; with rows, exactly one of "project selected" and "spec
\* selected" holds.
C21_CursorAccessors ==
    /\ Len(items) = 0 =>
          get_selected_project_index = None /\ get_selected_spec = None
    /\ Len(items) > 0 =>
          is_project_selected(items, selected_index)
              # is_spec_selected(items, selected_index)
    /\ \A p \in 0..(Len(projects) - 1) :
          /\ (selected_index < Len(items)
              /\ items[selected_index + 1] = [kind |-> "Project", index |-> p])
             => /\ get_selected_project_index = <<p>>
                /\ get_selected_spec = << >>
                /\ is_project_selected(items, selected_index)
          /\ \A s \in 0..(Len(projects[p + 1].specs) - 1) :
                (selected_index < Len(items)
                 /\ items[selected_index + 1]
                       = [kind |-> "Spec", project_index |-> p, spec_index |-> s])
                => /\ get_selected_project_index = <<p>>
                   /\ get_selected_spec = <<(<<p, s>>)>>
                   /\ is_spec_selected(items, selected_index)

\* C21 witness: the cursor addresses the spec row of the second project
C21_Witness ==
    /\ Len(projects) = 2
    /\ selected_index < Len(items)
    /\ items[selected_index + 1] = [kind |-> "Spec", project_index |-> 1, spec_index |-> 0]
    /\ get_selected_spec = <<(<<1, 0>>)>>

\* C22: a refresh whose session query fails sets an Error status message
\* and the has_refresh_error flag and leaves the projects (fold flags
\* included), the rows, the cursor and last_refresh exactly as they were.
C22_FailedRefreshKeepsModel ==
    [][op' = "refresh_err" =>
          /\ IsSome(status_message') /\ Unwrap(status_message').level = "Error"
          /\ has_refresh_error'
          /\ projects' = projects
          /\ items' = items
          /\ selected_index' = selected_index
          /\ last_refresh' = last_refresh]_vars

\* C22 witness: a refresh failed after a successful one, with two projects,
\* one of them folded, and the cursor below the first row
C22_Witness ==
    /\ op = "refresh_err"
    /\ has_refresh_error
    /\ IsSome(last_refresh)
    /\ Len(projects) = 2
    /\ projects[1].folded /\ ~projects[2].folded
    /\ selected_index > 0 /\ selected_index < Len(items)

\* the area a toggle of the focus makes for
OtherArea(a) == IF a = "Projects" THEN "Sessions" ELSE "Projects"

\* number of items, index of the first item and saved position of an area
AreaLen(s, a) == IF a = "Projects" THEN s.projects_len ELSE s.sessions_len

AreaFirst(s, a) == IF a = "Projects" THEN 0 ELSE s.projects_len

AreaSaved(s, a) == IF a = "Projects" THEN s.last_project_index ELSE s.last_session_index

\* C23: with both areas non-empty a toggle_focus moves the selection into the
\* other area, to the position last saved for that area if it is still in
\* range and to the area's first item otherwise, and a second toggle right
\* after it restores the selected index and the focus area; with the target
\* area empty a toggle changes neither the selected index nor the focus area.
C23_ToggleFocus ==
    [][sel_op' = "toggle_focus" =>
          LET target == OtherArea(sel.focus_area)
              saved == AreaSaved(sel, target)
          IN  /\ (sel.projects_len > 0 /\ sel.sessions_len > 0) =>
                    /\ sel'.focus_area = target
                    /\ sel'.selected_index =
                          AreaFirst(sel, target)
                            + (IF IsSome(saved) /\ Unwrap(saved) < AreaLen(sel, target)
                               THEN Unwrap(saved) ELSE 0)
                    /\ sel_op = "toggle_focus" =>
                          /\ sel'.selected_index = sel_was.selected_index
                          /\ sel'.focus_area = sel_was.focus_area
              /\ AreaLen(sel, target) = 0 =>
                    /\ sel'.selected_index = sel.selected_index
                    /\ sel'.focus_area = sel.focus_area]_vars

\* C23 witness: with three projects and three sessions, a toggle from the
\* third project went to the first session and a second toggle came back to
\* the third project
C23_Witness ==
    /\ sel_op = "toggle_focus"
    /\ sel.projects_len = 3 /\ sel.sessions_len = 3
    /\ sel_was.focus_area = "Sessions" /\ sel_was.selected_index = 3
    /\ sel.focus_area = "Projects" /\ sel.selected_index = 2
    /\ sel.last_project_index = <<2>>
    /\ sel.last_session_index = <<0>>

\* number of start commands in a command log
Starts(log) == Cardinality({i \in 1..Len(log) : log[i] = "start"})

\* C24 as stated: start_project issues the start command at most twice; the
\* second attempt happens only after the first failed with "project already
\* running", no session was running, and the lock file existed and was
\* removed; a failing retry is returned as an error; with sessions running
\* the lock file is left in place and the original error returned; any
\* other failure is returned without retry.
C24_StartRetryProtocol ==
    IsSome(sp.call) =>
        LET c == Unwrap(sp.call)
        IN  /\ Starts(c.log) \in {1, 2}
            /\ Starts(c.log) = 2 =>
                  /\ c.first = "AlreadyRunning"
                  /\ ~c.running
                  /\ c.lock_before /\ ~c.lock_after
                  /\ c.log = <<"start", "list", "remove_lock", "start">>
                  /\ c.retry # "Success" => c.result.kind \in {"RetryFailed", "RunErr"}
            /\ (c.first = "AlreadyRunning" /\ c.running) =>
                  /\ c.lock_after = c.lock_before
                  /\ c.result = [kind |-> "StartFailed", stderr |-> "AlreadyRunning"]
                  /\ Starts(c.log) = 1
            /\ c.first \in {"Failed", "RunErr"} =>
                  /\ Starts(c.log) = 1
                  /\ c.result.kind \in {"StartFailed", "RunErr"}

\* the commands of the batch's own kind in a command log, as targets
OwnCommands(b) ==
    LET own == SelectSeq(b.log, LAMBDA c : c.cmd = b.kind)
    IN  [i \in 1..Len(own) |-> [name |-> own[i].name, id |-> own[i].id]]

\* C25 as stated: a started project-level batch runs to completion: it
\* never stops before its last target, the commands it has issued are those
\* of the targets gone through so far, once each and in list order, and a
\* finished batch has issued its command for every target.
C25_BatchRunsToCompletion ==
    /\ bt.pc # "aborted"
    /\ bt.pc \in {"running", "done"} =>
          OwnCommands(bt) = SubSeq(bt.targets, 1, bt.pos)
    /\ bt.pc = "done" => bt.pos = Len(bt.targets)

\* the directory entry with the path given
EntryOf(fs, path) == CHOOSE e \in 1..Len(fs.entries) : fs.entries[e].path = path

\* the canonical path of a discovered project file
CanonicalOf(fs, file) == canonical_path(fs, EntryOf(fs, file.path))

\* an entry whose file is a regular file that can be read and parsed
IsProjectEntry(fs, e) ==
    /\ fs.files[fs.entries[e].file].is_file
    /\ IsSome(fs.files[fs.entries[e].file].parsed)

\* C26: discovery returns Ok with a list in which no two entries have the
\* same canonical path and no entry is of a file that could not be read or
\* parsed; every entry matched that is not excluded and is of a readable
\* project file has its canonical path in the list, whatever else failed.
C26_DiscoveryDedupAndOmit ==
    dc.pc = "done" =>
        LET r == Unwrap(dc.result)
            matched == Range(glob_entries(dc.globs, Len(dc.globs)))
        IN  /\ r.kind = "Ok"
            /\ \A i, j \in 1..Len(r.files) :
                  i # j => CanonicalOf(dc.fs, r.files[i]) # CanonicalOf(dc.fs, r.files[j])
            /\ \A i \in 1..Len(r.files) :
                  IsProjectEntry(dc.fs, EntryOf(dc.fs, r.files[i].path))
            /\ \A e \in matched :
                  (IsProjectEntry(dc.fs, e) /\ ~dc.fs.entries[e].excluded) =>
                      \E i \in 1..Len(r.files) :
                          CanonicalOf(dc.fs, r.files[i]) = canonical_path(dc.fs, e)

\* C26 witness: two patterns both match the first file, the second also
\* through the link, and match a file that cannot be parsed; one glob entry
\* of the file is returned
C26_Witness ==
    /\ dc.pc = "done"
    /\ Len(dc.globs) = 2
    /\ dc.globs[1] = [ok |-> TRUE, paths |-> <<1, 2>>]
    /\ dc.globs[2] = [ok |-> TRUE, paths |-> <<1, 2, 3>>]
    /\ \A e \in 1..3 : dc.fs.entries[e].canon_ok /\ ~dc.fs.entries[e].excluded
    /\ IsProjectEntry(dc.fs, 1)
    /\ dc.fs.files[2].is_file /\ dc.fs.files[2].parsed = None
    /\ Len(Unwrap(dc.result).files) = 1

(***************************************************************************)
(* C27: auto-refresh after a failed refresh.                               *)
(***************************************************************************)
\* a step that clears has_refresh_error is a successful refresh, and the idle
\* branch refreshes only from a state without the error flag
AutoRefreshSteps ==
    /\ (has_refresh_error /\ ~has_refresh_error') => op' \in {"refresh_ok", "auto_refresh_ok"}
    /\ op' \in {"auto_refresh_ok", "auto_refresh_err"} => ~has_refresh_error

\* C27: while has_refresh_error is set should_auto_refresh returns false, and
\* the flag stays set until a refresh succeeds, so the idle loop never
\* retries on its own after a failure; with auto-refresh disabled in the
\* configuration should_auto_refresh returns false always; with it enabled,
\* no error and no refresh done yet (last_refresh is None) it returns true.
C27_NoAutoRetryAfterError ==
    /\ [](/\ has_refresh_error => ~ShouldAutoRefresh
          /\ ~auto.enabled => ~ShouldAutoRefresh
          /\ (auto.enabled /\ ~has_refresh_error /\ last_refresh = None) => ShouldAutoRefresh)
    /\ [][AutoRefreshSteps]_vars

\* a refresh has failed after an earlier success, auto-refresh is enabled and
\* the interval has gone by since the last successful refresh
C27_Witness ==
    /\ has_refresh_error
    /\ auto.enabled
    /\ IsSome(last_refresh)
    /\ auto.interval_secs > 0
    /\ auto.elapsed >= auto.interval_secs
    /\ op = "tick"

(***************************************************************************)
(* C28: the result of handle_key_event.                                    *)
(***************************************************************************)
\* keys that navigate, fold, switch the display mode or the conflict view
ViewKeys == {"Up", "k", "Down", "j", "h", "Left", "l", "Right", "Enter", "m", "c"}

\* the key of the step is Ctrl-C
CtrlCStep == Unwrap(ky'.key).code = "c" /\ Unwrap(ky'.key).ctrl

\* the key of the step is a mutating command key or the edit key
CommandKeyStep == Unwrap(ky'.key).code \in MutatingKeys \cup {"e"}

\* view keys result in Continue; q and Ctrl-C set should_quit and result in
\* Quit; Ctrl-C leaves the conflict view as it was
ViewAndQuitKeys ==
    /\ (Unwrap(ky'.key).code \in ViewKeys /\ ~CtrlCStep) => ky'.result = Some("Continue")
    /\ (Unwrap(ky'.key).code = "q" \/ CtrlCStep) =>
          (ky'.should_quit /\ ky'.result = Some("Quit"))
    /\ CtrlCStep => ky'.viewing_conflicts = ky.viewing_conflicts

AttachedIn(projs) ==
    UNION { {projs[i].specs[k].running_session[1] :
                k \in {k \in 1..Len(projs[i].specs) : projs[i].specs[k].running_session # None}} :
            i \in 1..Len(projs) }

\* the identifiers attached in a project list
AttachedIds(projs) == {x.identifier : x \in AttachedIn(projs)}

\* the successful-cycle counter of a session, a missing counter as 0
CyclesOf(session) ==
    IF session.successful_cycles = None THEN 0 ELSE session.successful_cycles[1]

\* C29: after a successful refresh, a session whose identifier was attached
\* to some spec in the previous generation has sync_time At if its
\* successful-cycle counter strictly increased (a missing counter counts as
\* 0) and otherwise exactly the sync_time of the previous generation; so a
\* session that stays attached never goes from At back to Unknown or Never.
C29_SyncTimeTracked ==
    [][op' = "refresh_ok" =>
          \A new \in AttachedIn(projects'), old \in AttachedIn(projects) :
              new.identifier = old.identifier =>
                  /\ new.sync_time = IF CyclesOf(new) > CyclesOf(old)
                                     THEN "At" ELSE old.sync_time
                  /\ old.sync_time = "At" => new.sync_time = "At"]_vars

\* a session attached through at least two refreshes has the sync_time At
\* and a counter below the largest
C29_Witness ==
    /\ op = "refresh_ok"
    /\ \E x \in AttachedIn(projects) :
          /\ x.sync_time = "At"
          /\ x.successful_cycles = Some(1)
    /\ \E x \in AttachedIn(projects) : x.sync_time = "Unknown"

\* C30: on the first successful refresh every session gets sync_time
\* Unknown; on every later refresh a session whose identifier was not
\* attached in the previous generation gets At if its successful-cycle
\* counter is above 0 and Never otherwise.
C30_NewSessionSyncTime ==
    [][op' = "refresh_ok" =>
          \A new \in AttachedIn(projects') :
              IF last_refresh = None
              THEN new.sync_time = "Unknown"
              ELSE new.identifier \notin AttachedIds(projects) =>
                      new.sync_time = IF CyclesOf(new) > 0 THEN "At" ELSE "Never"]_vars

(***************************************************************************)
(* C31: the accounting of a project-level batch (checked under SpecBatch). *)
(***************************************************************************)
\* the batches that count what succeeded and what failed
AccountingKinds == {"terminate", "flush", "pause", "resume"}

\* the level of the status message
StatusLevel == Unwrap(status_message).level

\* C31: in project-level terminate, flush, pause and resume the commands
\* that succeeded and those that failed add up to the targets gone through,
\* and to all targets when the loop has ended; the status message is then
\* Info iff nothing failed, Warning iff at least one step succeeded and at
\* least one failed, Error iff nothing succeeded; errors[0] is never read
\* from an empty list; when the selected project has no targeted spec no
\* command is issued and an Info message is set.
C31_BatchAccounting ==
    /\ bt.pc # "panicked"
    /\ (bt.kind \in AccountingKinds /\ bt.pc \in {"running", "done"}) =>
          bt.ok_count + Len(bt.errors) = bt.pos
    /\ (bt.kind \in AccountingKinds /\ bt.pc = "done" /\ Len(bt.targets) > 0) =>
          /\ bt.ok_count + Len(bt.errors) = Len(bt.targets)
          /\ IsSome(status_message)
          /\ StatusLevel = "Info" <=> Len(bt.errors) = 0
          /\ StatusLevel = "Warning" <=> (bt.ok_count > 0 /\ Len(bt.errors) > 0)
          /\ StatusLevel = "Error" <=> bt.ok_count = 0
          /\ reads_first_error(bt.kind, bt.ok_count, bt.errors) => Len(bt.errors) > 0
    /\ (/\ bt.kind \in AccountingKinds
        /\ bt.pc = "done"
        /\ IsSome(get_selected_project_index)
        /\ Len(bt.targets) = 0) =>
          /\ bt.log = << >>
          /\ IsSome(status_message)
          /\ StatusLevel = "Info"

\* a terminate of two running specs has ended, one command succeeded and
\* one failed, and the message is a Warning
C31_Witness ==
    /\ bt.kind = "terminate"
    /\ bt.pc = "done"
    /\ Len(bt.targets) = 2
    /\ bt.ok_count = 1
    /\ Len(bt.errors) = 1
    /\ StatusLevel = "Warning"

(***************************************************************************)
(* C32: a push replaces the running sessions (checked under SpecBatch).    *)
(***************************************************************************)
\* the positions in the log of the commands of one kind
LogPositions(cmd) == {i \in 1..Len(bt.log) : bt.log[i].cmd = cmd}

\* a terminate of the session of the spec is in the log before every create
TerminatedBeforeCreate(spec) ==
    \E i \in LogPositions("terminate") :
        /\ bt.log[i].id = Some(Unwrap(spec.running_session).identifier)
        /\ \A j \in LogPositions("push") : i < j

\* the handler went on to the directories of the spec named, and with the
\* directories there to the create command of the session called created
WentOnToCreate(name, created) ==
    \E i \in LogPositions("ensure_directories") :
        /\ bt.log[i].name = name
        /\ bt.log[i].ok =>
              \E j \in LogPositions("push") : j > i /\ bt.log[j].name = created

\* C32: in push_selected_project a terminate command has been issued for
\* every running session of the project before the first create command;
\* in push_selected_spec a running two-way session of the selected spec is
\* terminated before the push session named spec + "-push" is created;
\* whatever the terminate commands returned, the handler goes on to the
\* create step of every target it reaches.
C32_PushReplacesRunning ==
    /\ (/\ bt.kind = "push"
        /\ bt.pc \in {"running", "done", "aborted"}
        /\ IsSome(get_selected_project_index)) =>
          LET project == projects[Unwrap(get_selected_project_index) + 1]
          IN  /\ \A k \in 1..Len(project.specs) :
                    is_running(project.specs[k]) => TerminatedBeforeCreate(project.specs[k])
              /\ \A p \in 1..bt.pos :
                    WentOnToCreate(bt.targets[p].name, bt.targets[p].name)
    /\ (bt.kind = "push_spec" /\ bt.pc = "done" /\ IsSome(get_selected_spec)) =>
          LET spec == projects[Unwrap(get_selected_spec)[1] + 1]
                         .specs[Unwrap(get_selected_spec)[2] + 1]
          IN  /\ spec.state = "RunningTwoWay" => TerminatedBeforeCreate(spec)
              /\ WentOnToCreate(spec.name, spec.name \o PushSuffix)

\* push_selected_spec on a spec with a two-way session: the terminate
\* failed and the push session was created all the same
C32_Witness ==
    /\ bt.kind = "push_spec"
    /\ bt.pc = "done"
    /\ Len(bt.log) = 3
    /\ bt.log[1].cmd = "terminate" /\ ~bt.log[1].ok
    /\ bt.log[3].cmd = "push" /\ bt.log[3].ok
    /\ bt.log[3].name = NameAPush

(***************************************************************************)
(* C33: start_selected_spec (checked under SpecBatch).                     *)
(***************************************************************************)
\* the selected spec has an attached session
SelectedSpecRunning ==
    /\ IsSome(get_selected_spec)
    /\ is_running(projects[Unwrap(get_selected_spec)[1] + 1]
                     .specs[Unwrap(get_selected_spec)[2] + 1])

\* C33: start_selected_spec issues no daemon or directory-creation command
\* when the selected spec already has an attached session (RunningTwoWay or
\* RunningPush): it only sets a Warning status; when nothing or a project
\* header is selected it issues no command and leaves the status message as
\* it was.
C33_StartSelectedSpec ==
    [][bt'.kind = "start_spec" =>
          /\ SelectedSpecRunning =>
                /\ bt'.log = << >>
                /\ IsSome(status_message')
                /\ Unwrap(status_message').level = "Warning"
          /\ ~IsSome(get_selected_spec) =>
                /\ bt'.log = << >>
                /\ status_message' = status_message]_vars

\* start_selected_spec was called on a spec in state RunningPush: no
\* command, and a Warning
C33_Witness ==
    /\ bt.kind = "start_spec"
    /\ SelectedSpecRunning
    /\ projects[Unwrap(get_selected_spec)[1] + 1]
          .specs[Unwrap(get_selected_spec)[2] + 1].state = "RunningPush"
    /\ bt.log = << >>
    /\ Unwrap(status_message).level = "Warning"

(***************************************************************************)
(* C34: the fold keys (checked under SpecKeys).                            *)
(***************************************************************************)
\* the step handles one of the keys given with a project addressed by the
\* cursor, directly or as the parent of the selected spec
FoldKeyStep(codes) ==
    /\ IsSome(ky'.key)
    /\ Unwrap(ky'.key).code \in codes
    /\ ky'.result = Some("Continue")
    /\ IsSome(get_selected_project_index)
    /\ Unwrap(get_selected_project_index) < Len(projects)

\* C34 as stated: after the key h or Left the project addressed by the
\* cursor is folded, whatever its fold state was before; l, Right and Enter
\* toggle it.
C34_FoldKeys ==
    [][/\ FoldKeyStep({"h", "Left"}) =>
             projects'[Unwrap(get_selected_project_index) + 1].folded
       /\ FoldKeyStep({"l", "Right", "Enter"}) =>
             projects'[Unwrap(get_selected_project_index) + 1].folded
                = ~projects[Unwrap(get_selected_project_index) + 1].folded]_vars

(***************************************************************************)
(* Refreshes of an application whose status line has been written by its   *)
(* commands.                                                               *)
(***************************************************************************)
\* the two texts refresh_sessions compares the message with
TemporaryTexts == {"Creating push session...", "Starting sync spec..."}

\* messages written to app.status_message between refreshes: the two
\* temporary texts, a command's Info and Error, the event loop's Warning
ShownMessages ==
    [level : {"Info"}, text : TemporaryTexts]
    \cup {[level |-> "Info", text |-> "No running specs to flush"],
          [level |-> "Error", text |-> "No project selected"],
          [level |-> "Warning", text |-> "Cannot push: project has active sessions. Stop the project first."]}

\* self.status_message = Some(m)
show_status(m) ==
    /\ status_message' = Some(m)
    /\ UNCHANGED <<projects, items, selected_index, has_refresh_error, last_refresh>>

NextStatus ==
    \/ \E f \in AutoFileLists, s \in AutoSessionLists :
          refresh_sessions_ok(f, s) /\ Noted("refresh_ok")
    \/ refresh_sessions_err /\ Noted("refresh_err")
    \/ \E m \in ShownMessages : show_status(m) /\ Noted("show_status")

SpecStatus == Init /\ [][NextStatus]_vars

\* C35: a successful refresh sets the status message to "Sessions refreshed"
\* exactly when there was no message or its text was "Creating push
\* session..." or "Starting sync spec..."; every other message, the Error of
\* a failed refresh included, is the message after the refresh
C35_RefreshedMessage ==
    [][op' = "refresh_ok" =>
          IF status_message = None
             \/ (IsSome(status_message) /\ Unwrap(status_message).text \in TemporaryTexts)
          THEN status_message' = Some(SessionsRefreshed)
          ELSE status_message' = status_message]_vars

\* a successful refresh has left the Error of an earlier failed refresh on
\* the status line
C35_Witness ==
    /\ op = "refresh_ok"
    /\ last_refresh = Some("now")
    /\ ~has_refresh_error
    /\ status_message = Some(RefreshErrorMessage)

\* the focus area that goes with the selected index of s
FocusOfIndex(s) ==
    IF s.selected_index < s.projects_len THEN "Projects" ELSE "Sessions"

\* C36: whenever the SelectionManager holds at least one item, its focus area
\* is Projects exactly when the selected index is below projects_len and
\* Sessions otherwise, after any sequence of its public operations; and
\* select_project and select_session with an index at or beyond the length
\* of their list leave every field of the manager as it was
C36_FocusConsistent ==
    /\ total_items(sel) > 0 => sel.focus_area = FocusOfIndex(sel)
    /\ \A i \in 0..(MaxSize + 1) :
          /\ i >= sel.projects_len => select_project(sel, i) = sel
          /\ i >= sel.sessions_len => select_session(sel, i) = sel

\* select_project was called in the Sessions area of a manager with
\* projects and sessions and the focus is still on a session: the index it
\* was given was out of range
C36_Witness ==
    /\ sel_op = "select_project"
    /\ sel.projects_len > 0
    /\ sel.sessions_len > 0
    /\ sel.selected_index >= sel.projects_len
    /\ sel.focus_area = "Sessions"
    /\ sel = sel_was

(***************************************************************************)
(* The event loop with its batches: refreshes, navigation and fold toggles *)
(* between batch handlers, the frames drawn inside a batch.                *)
(***************************************************************************)
\* discovery results and daemon snapshots of the loop: no project, one
\* project with one spec, two projects of which the first has two specs; no
\* session or one two-way session
LoopFileLists == {<< >>, <<AppFiles[3]>>, <<AppFiles[2], AppFiles[3]>>}

LoopSessionLists == {<< >>, <<Session(NameA, <<49>>, None, << >>, None)>>}

\* history bookkeeping of a turn of the loop: the operation is noted, and
\* the batch handler that ran before has returned (its locals are gone)
NotedTurn(name, toggle) ==
    /\ op' = name
    /\ toggled' = toggle
    /\ bt' = NoBatch
    /\ UNCHANGED <<snap_files, snap_sessions, new_paths, fresh_projects>>
    /\ UNCHANGED selVars
    /\ UNCHANGED rcVars
    /\ UNCHANGED <<sp, dc, auto, ky>>

\* the event loop handles a key or refreshes only when no batch handler is
\* under way (the handlers run inside the loop's iteration), and not at all
\* once a handler has returned an error or panicked
loop_turn ==
    /\ bt.pc \in {"idle", "done"}
    /\ \/ \E f \in LoopFileLists, s \in LoopSessionLists :
             refresh_sessions_ok(f, s) /\ NotedTurn("refresh_ok", NoToggle)
       \/ refresh_sessions_err /\ NotedTurn("refresh_err", NoToggle)
       \/ select_next /\ NotedTurn("select_next", NoToggle)
       \/ select_previous /\ NotedTurn("select_previous", NoToggle)
       \/ \E i \in 0..MaxProjects :
             toggle_project_fold(i)
             /\ NotedTurn("toggle_fold", [project_idx |-> Some(i), len |-> Len(items),
                                          cursor |-> selected_index])

NextLoop ==
    \/ loop_turn
    \/ NextBatch

SpecLoop == Init /\ [][NextLoop]_vars

\* the row refers to a project of projs and, a Spec row, to a spec of it
RowInside(row, projs) ==
    IF row.kind = "Project" THEN row.index \in 0..(Len(projs) - 1)
    ELSE /\ row.project_index \in 0..(Len(projs) - 1)
         /\ row.spec_index \in 0..(Len(projs[row.project_index + 1].specs) - 1)

\* C37: in every state reached by successful and failed refreshes, fold
\* toggles, navigation and batch steps, every row of the row list refers to
\* a project of the current list and every Spec row to a spec of that
\* project, and the project index and the spec the cursor selects, when
\* there are any, index inside the current projects
C37_NoDanglingIndices ==
    /\ \A r \in 1..Len(items) : RowInside(items[r], projects)
    /\ IsSome(get_selected_project_index) =>
          Unwrap(get_selected_project_index) < Len(projects)
    /\ IsSome(get_selected_spec) =>
          /\ Unwrap(get_selected_spec)[1] < Len(projects)
          /\ Unwrap(get_selected_spec)[2]
                < Len(projects[Unwrap(get_selected_spec)[1] + 1].specs)

\* the status line shows the result of a batch, a fold toggle after it has
\* shortened the row list below the row the cursor was on, and the cursor
\* addresses the last row, a header of the current list
C37_Witness ==
    /\ IsSome(status_message)
    /\ Unwrap(status_message) \notin {SessionsRefreshed, RefreshErrorMessage}
    /\ op = "toggle_fold"
    /\ toggled.cursor >= Len(items)
    /\ Len(items) > 0
    /\ selected_index = Len(items) - 1
    /\ IsSome(get_selected_project_index)

(***************************************************************************)
(* Attachment of sessions within one reconciliation.                       *)
(***************************************************************************)
\* the sessions of the daemon: every name with and without the one-way
\* mode, the identifier of a session telling its place in the list
AttachSessionLists ==
    { [i \in 1..Len(l) |-> Session(l[i].name, <<48 + i>>, l[i].mode, << >>, None)] :
        l \in SeqsUpTo([name : {NameA, NameB, NameAPush, NameBPush},
                        mode : {None, Some(OneWayReplica)}], MaxRcSessions) }

InitAttach ==
    /\ AppNew
    /\ SelNew
    /\ AuxNew
    /\ \E keys \in RcKeyLists :
          rc_files = <<from_path([dir |-> "/a", file_name |-> FileMutagenYml], keys)>>
    /\ rc_sessions \in AttachSessionLists
    /\ rc_projects = << >>
    /\ rc_pc = "input"

SpecAttach == InitAttach /\ [][NextReconcile]_vars

\* the session matches the spec name as a two-way session / as a push session
TwoWayMatch(session, name) ==
    session.name = name /\ session.mode # Some(OneWayReplica)

PushMatch(session, name) ==
    session.name = name \o PushSuffix /\ session.mode = Some(OneWayReplica)

\* positions in rc_sessions of the sessions that match the spec name
TwoWayMatches(name) ==
    {i \in 1..Len(rc_sessions) : TwoWayMatch(rc_sessions[i], name)}

PushMatches(name) ==
    {i \in 1..Len(rc_sessions) : PushMatch(rc_sessions[i], name)}

\* the specs of the reconciled project
RcSpecs == rc_projects[1].specs

\* the rearrangements of the positions 1..n, for every length of a session list
IndexOrders ==
    [n \in 0..MaxRcSessions |-> {g \in [1..n -> 1..n] : IsInjective(g)}]

\* the rearrangements of the session list
RcSessionOrders ==
    {[i \in 1..Len(rc_sessions) |-> rc_sessions[f[i]]] : f \in IndexOrders[Len(rc_sessions)]}

\* a session record is attached to at most one spec, and only to a spec it
\* matches: a non-one-way session to the spec of its name, a one-way session
\* to the spec whose name plus "-push" is its name
AttachedToOneMatchingSpec ==
    /\ \A i \in 1..Len(rc_sessions) :
          Cardinality({k \in 1..Len(RcSpecs) :
                          RcSpecs[k].running_session = Some(rc_sessions[i])}) <= 1
    /\ \A k \in 1..Len(RcSpecs) :
          IsSome(RcSpecs[k].running_session) =>
              \/ TwoWayMatch(Unwrap(RcSpecs[k].running_session), RcSpecs[k].name)
              \/ PushMatch(Unwrap(RcSpecs[k].running_session), RcSpecs[k].name)

\* the state tag of every spec is the one its name gets from every
\* rearrangement of the session list
TagsIndependentOfOrder ==
    \A order \in RcSessionOrders :
        \A k \in 1..Len(RcSpecs) :
            build_one_spec(RcSpecs[k].name, order).state = RcSpecs[k].state

\* C38 as stated: a session record is attached to at most one spec, which
\* it matches; of the sessions that match a spec, the first one in the order
\* of the session list is the one attached; the state tags do not depend on
\* the order of the session list
C38_FirstMatchAttached ==
    rc_pc = "done" =>
        /\ AttachedToOneMatchingSpec
        /\ \A k \in 1..Len(RcSpecs) :
              LET matches == TwoWayMatches(RcSpecs[k].name) \cup PushMatches(RcSpecs[k].name)
              IN  matches # {} =>
                     RcSpecs[k].running_session = Some(rc_sessions[SetMin(matches)])
        /\ TagsIndependentOfOrder

\* C38: a session record is attached to at most one spec, which it matches;
\* of several two-way matches of a spec the first one in the order of the
\* session list is attached, and with no two-way match the first of its push
\* matches, while a two-way match is attached whatever push match precedes
\* it; the state tags do not depend on the order of the session list
C38_FirstMatchOfItsKindAttached ==
    rc_pc = "done" =>
        /\ AttachedToOneMatchingSpec
        /\ \A k \in 1..Len(RcSpecs) :
              LET two_way == TwoWayMatches(RcSpecs[k].name)
                  push == PushMatches(RcSpecs[k].name)
              IN  /\ two_way # {} =>
                         RcSpecs[k].running_session = Some(rc_sessions[SetMin(two_way)])
                  /\ (two_way = {} /\ push # {}) =>
                         RcSpecs[k].running_session = Some(rc_sessions[SetMin(push)])
        /\ TagsIndependentOfOrder

\* two two-way sessions named a follow a one-way session a-push in the
\* list: spec a is RunningTwoWay with the second session of the list attached
C38_Witness ==
    /\ rc_pc = "done"
    /\ Len(rc_sessions) = 3
    /\ PushMatches(NameA) = {1}
    /\ TwoWayMatches(NameA) = {2, 3}
    /\ \E k \in 1..Len(RcSpecs) :
          /\ RcSpecs[k].name = NameA
          /\ RcSpecs[k].state = "RunningTwoWay"
          /\ RcSpecs[k].running_session = Some(rc_sessions[2])

====
